---- MODULE Spec2Model ----
(***************************************************************************)
(* The batched command pipeline of gocent (HTTP API client of Centrifugo): *)
(* a Pipe collects commands (pipe.go), Client.SendPipe / Client.send       *)
(* (doc.go) serialize them as a stream of JSON values in one HTTP POST and *)
(* parse the stream of replies that comes back.                            *)
(***************************************************************************)
EXTENDS Integers, Sequences, FiniteSets, TLC

(***************************************************************************)
(* Bounds of the model.                                                    *)
(***************************************************************************)
\* longest buffer the callers build
MaxCommands == 2
\* longest list handed to AddPublishRequests
MaxRequests == MaxCommands
\* longest stream of elements in a response body
MaxReplies == 3

(***************************************************************************)
(* Inputs of the callers.  Byte slices are written as strings, the nil /   *)
(* empty slice as "".                                                      *)
(***************************************************************************)
Channel == "chat"
User == "42"
\* the data payloads the callers pass: "d1" is a JSON document, "bad" is
\* a byte string that is no JSON document
Data == {"d1", "bad"}
JSONDocs == {"d1", "d2"}

(***************************************************************************)
(* Errors.  nil is NoErr.                                                  *)
(***************************************************************************)
Err(kind, code) == [kind |-> kind, Code |-> code]
NoErr == Err("nil", 0)
ErrPipeEmpty == Err("ErrPipeEmpty", 0)
ErrMalformedResponse == Err("ErrMalformedResponse", 0)
ErrStatusCode(code) == Err("ErrStatusCode", code)
\* errors of the collaborators: encoding/json, the endpoint resolver,
\* net/http
ErrMarshal == Err("json.MarshalerError", 0)
ErrUnmarshal == Err("json.SyntaxError", 0)
ErrUnmarshalType == Err("json.UnmarshalTypeError", 0)
ErrGetAddr == Err("GetAddr", 0)
ErrNewRequest == Err("url.Error", 0)
ErrTransport == Err("http.Do", 0)

StatusOK == 200

(***************************************************************************)
(* Option decorators (options.go).  A decorator is the field it sets and   *)
(* the value it sets it to; applying a list of decorators runs them in     *)
(* order against a record.                                                 *)
(***************************************************************************)
NilStreamPosition == [isNil |-> TRUE, Offset |-> 0, Epoch |-> ""]
NilDisconnect == [isNil |-> TRUE, Code |-> 0, Reason |-> "", Reconnect |-> FALSE]

PublishOptions == [SkipHistory |-> FALSE]
SubscribeOptions ==
    [Info |-> "", Presence |-> FALSE, JoinLeave |-> FALSE, Position |-> FALSE,
     Recover |-> FALSE, Data |-> "", RecoverSince |-> NilStreamPosition,
     ClientID |-> ""]
UnsubscribeOptions == [ClientID |-> ""]
DisconnectOptions ==
    [Disconnect |-> NilDisconnect, ClientWhitelist |-> <<>>, ClientID |-> ""]
HistoryOptions == [Since |-> NilStreamPosition, Limit |-> 0, Reverse |-> FALSE]
ChannelsOptions == [Pattern |-> ""]

WithSkipHistory(skip) == [field |-> "SkipHistory", val |-> skip]
WithSubscribeInfo(chanInfo) == [field |-> "Info", val |-> chanInfo]
WithPresence(enabled) == [field |-> "Presence", val |-> enabled]
WithJoinLeave(enabled) == [field |-> "JoinLeave", val |-> enabled]
WithPosition(enabled) == [field |-> "Position", val |-> enabled]
WithRecover(enabled) == [field |-> "Recover", val |-> enabled]
WithSubscribeData(data) == [field |-> "Data", val |-> data]
WithRecoverSince(since) == [field |-> "RecoverSince", val |-> since]
WithDisconnect(disconnect) == [field |-> "Disconnect", val |-> disconnect]
WithDisconnectClientWhitelist(whitelist) ==
    [field |-> "ClientWhitelist", val |-> whitelist]
WithSince(sp) == [field |-> "Since", val |-> sp]
WithSubscribeClient(clientID) == [field |-> "ClientID", val |-> clientID]
WithUnsubscribeClient(clientID) == [field |-> "ClientID", val |-> clientID]
WithDisconnectClient(clientID) == [field |-> "ClientID", val |-> clientID]
WithLimit(limit) == [field |-> "Limit", val |-> limit]
WithReverse(reverse) == [field |-> "Reverse", val |-> reverse]
WithPattern(pattern) == [field |-> "Pattern", val |-> pattern]

\* a variant of ApplyOptions in which the first decorator of a field wins
RECURSIVE ApplyOptions_firstWins(_, _)
ApplyOptions_firstWins(options, opts) ==
    IF opts = <<>> THEN options
    ELSE LET rest == ApplyOptions_firstWins(options, Tail(opts))
         IN  [rest EXCEPT ![Head(opts).field] = Head(opts).val]

\* for _, opt := range opts { opt(options) }
RECURSIVE ApplyOptions(_, _)
ApplyOptions(options, opts) ==
    IF opts = <<>> THEN options
    ELSE ApplyOptions([options EXCEPT ![Head(opts).field] = Head(opts).val],
                      Tail(opts))

(***************************************************************************)
(* Commands and their params (pipe.go).  The params carry the Go type that *)
(* holds them, which decides how they are marshaled.                       *)
(***************************************************************************)
Command(method, params) == [Method |-> method, Params |-> params]

PublishRequest(channel, data, options) ==
    [type |-> "PublishRequest", Channel |-> channel, Data |-> data,
     PublishOptions |-> options]
broadcastRequest(channels, data, options) ==
    [type |-> "broadcastRequest", Channels |-> channels, Data |-> data,
     PublishOptions |-> options]
subscribeRequest(channel, user, options) ==
    [type |-> "subscribeRequest", Channel |-> channel, User |-> user,
     SubscribeOptions |-> options]
unsubscribeRequest(channel, user, options) ==
    [type |-> "unsubscribeRequest", Channel |-> channel, User |-> user,
     UnsubscribeOptions |-> options]
disconnectRequest(user, options) ==
    [type |-> "disconnectRequest", User |-> user, DisconnectOptions |-> options]
historyRequest(channel, options) ==
    [type |-> "historyRequest", Channel |-> channel, HistoryOptions |-> options]
channelsRequest(pattern) == [type |-> "channelsRequest", Pattern |-> pattern]
channelMap(channel) == [type |-> "map", channel |-> channel]
emptyMap == [type |-> "emptymap"]

(***************************************************************************)
(* encoding/json as Client.send uses it.  A JSON object is a function from *)
(* its keys to its values; scalars stand for themselves, raw messages are  *)
(* the text they hold.                                                     *)
(***************************************************************************)
EmptyObject == [k \in {} |-> TRUE]
JNull == [json |-> "null"]
JArray(elems) == [json |-> "array", elems |-> elems]
JObject(fields) == [json |-> "object", fields |-> fields]

\* a field with the omitempty tag
omitempty(key, value, empty) == IF empty THEN EmptyObject ELSE key :> value

\* json.RawMessage.MarshalJSON: nil is null, other bytes must be a document
RawMessageOK(m) == m = "" \/ m \in JSONDocs
MarshalRawMessage(m) == IF m = "" THEN "null" ELSE m

\* a []string: nil is null
MarshalStrings(s) == IF s = <<>> THEN JNull ELSE JArray(s)

\* *StreamPosition behind an omitempty tag
MarshalStreamPosition(key, sp) ==
    omitempty(key,
              JObject(omitempty("offset", sp.Offset, sp.Offset = 0)
                      @@ omitempty("epoch", sp.Epoch, sp.Epoch = "")),
              sp.isNil)

\* *Disconnect, a field without tag
MarshalDisconnect(d) ==
    IF d.isNil THEN JNull
    ELSE JObject(omitempty("code", d.Code, d.Code = 0)
                 @@ ("reason" :> d.Reason) @@ ("reconnect" :> d.Reconnect))

MarshalPublishOptions(o) == omitempty("skip_history", TRUE, ~o.SkipHistory)

MarshalSubscribeOptions(o) ==
    omitempty("info", o.Info, o.Info = "")
    @@ omitempty("presence", TRUE, ~o.Presence)
    @@ omitempty("join_leave", TRUE, ~o.JoinLeave)
    @@ omitempty("position", TRUE, ~o.Position)
    @@ omitempty("recover", TRUE, ~o.Recover)
    @@ omitempty("data", o.Data, o.Data = "")
    @@ MarshalStreamPosition("recover_since", o.RecoverSince)
    @@ omitempty("client", o.ClientID, o.ClientID = "")

MarshalDisconnectOptions(o) ==
    ("Disconnect" :> MarshalDisconnect(o.Disconnect))
    @@ ("ClientWhitelist" :> MarshalStrings(o.ClientWhitelist))
    @@ omitempty("client", o.ClientID, o.ClientID = "")

MarshalHistoryOptions(o) ==
    MarshalStreamPosition("since", o.Since)
    @@ omitempty("limit", o.Limit, o.Limit = 0)
    @@ omitempty("reverse", TRUE, ~o.Reverse)

\* a variant of ParamsOK that accepts every raw message
ParamsOK_always(p) == TRUE

\* whether json.Marshal of the params succeeds: a raw message that is no
\* document makes it fail
ParamsOK(p) ==
    CASE p.type \in {"PublishRequest", "broadcastRequest"} -> RawMessageOK(p.Data)
      [] p.type = "subscribeRequest" ->
            /\ RawMessageOK(p.SubscribeOptions.Info)
            /\ RawMessageOK(p.SubscribeOptions.Data)
      [] OTHER -> TRUE

\* the JSON object json.Marshal writes for the params
MarshalParams(p) ==
    CASE p.type = "PublishRequest" ->
            ("channel" :> p.Channel) @@ ("data" :> MarshalRawMessage(p.Data))
            @@ MarshalPublishOptions(p.PublishOptions)
      [] p.type = "broadcastRequest" ->
            ("channels" :> MarshalStrings(p.Channels))
            @@ ("data" :> MarshalRawMessage(p.Data))
            @@ MarshalPublishOptions(p.PublishOptions)
      [] p.type = "subscribeRequest" ->
            ("channel" :> p.Channel) @@ ("user" :> p.User)
            @@ MarshalSubscribeOptions(p.SubscribeOptions)
      [] p.type = "unsubscribeRequest" ->
            ("channel" :> p.Channel) @@ ("user" :> p.User)
            @@ omitempty("client", p.UnsubscribeOptions.ClientID,
                         p.UnsubscribeOptions.ClientID = "")
      [] p.type = "disconnectRequest" ->
            ("user" :> p.User) @@ MarshalDisconnectOptions(p.DisconnectOptions)
      [] p.type = "historyRequest" ->
            ("channel" :> p.Channel) @@ MarshalHistoryOptions(p.HistoryOptions)
      [] p.type = "channelsRequest" ->
            omitempty("pattern", p.Pattern, p.Pattern = "")
      [] p.type = "map" -> ("channel" :> p.channel)
      [] OTHER -> EmptyObject

\* enc.Encode(cmd): one JSON value of the request body
Encode(cmd) == [method |-> cmd.Method, params |-> MarshalParams(cmd.Params)]

\* the loop of Client.send over the commands: the values written so far and
\* the first error
\* a variant of EncodeAll that stops at a command it cannot encode and
\* keeps the lines it has
RECURSIVE EncodeAll_partial(_)
EncodeAll_partial(cmds) ==
    IF cmds = <<>> THEN [err |-> NoErr, lines |-> <<>>]
    ELSE IF ~ParamsOK(Head(cmds).Params) THEN [err |-> NoErr, lines |-> <<>>]
    ELSE LET rest == EncodeAll_partial(Tail(cmds))
         IN  [err |-> NoErr, lines |-> <<Encode(Head(cmds))>> \o rest.lines]

RECURSIVE EncodeAll(_)
EncodeAll(cmds) ==
    IF cmds = <<>> THEN [err |-> NoErr, lines |-> <<>>]
    ELSE IF ~ParamsOK(Head(cmds).Params) THEN [err |-> ErrMarshal, lines |-> <<>>]
    ELSE LET rest == EncodeAll(Tail(cmds))
         IN  IF rest.err # NoErr THEN rest
             ELSE [err |-> NoErr, lines |-> <<Encode(Head(cmds))>> \o rest.lines]

(***************************************************************************)
(* The response body: a stream of elements.  An element is a JSON object   *)
(* that decodes into a Reply, or text that is no JSON value.               *)
(***************************************************************************)
\* "" is the absent error / the absent result
Element(kind, error, result) == [kind |-> kind, error |-> error, result |-> result]
Elements ==
    {Element("object", "", "r1"), Element("object", "e100", ""),
     Element("syntax", "", "")}

Reply(error, result) == [Error |-> error, Result |-> result]

\* dec.Decode(&rep) on one element
DecodeOK(el) == el.kind = "object"
Decode(el) == Reply(el.error, el.result)

\* a variant of DecodeStream that fails the call at a reply with an error
RECURSIVE DecodeStream_abortOnError(_, _)
DecodeStream_abortOnError(body, replies) ==
    IF body = <<>> THEN [replies |-> replies, err |-> NoErr]
    ELSE IF ~DecodeOK(Head(body)) THEN [replies |-> <<>>, err |-> ErrUnmarshal]
    ELSE IF Head(body).error # "" THEN [replies |-> <<>>, err |-> ErrMalformedResponse]
    ELSE DecodeStream_abortOnError(Tail(body), Append(replies, Decode(Head(body))))

\* a variant of DecodeStream that takes every decoding error for io.EOF
RECURSIVE DecodeStream_partial(_, _)
DecodeStream_partial(body, replies) ==
    IF body = <<>> THEN [replies |-> replies, err |-> NoErr]
    ELSE IF ~DecodeOK(Head(body)) THEN [replies |-> replies, err |-> NoErr]
    ELSE DecodeStream_partial(Tail(body), Append(replies, Decode(Head(body))))

\* a variant of DecodeStream that reports a decoding error as
\* ErrMalformedResponse
RECURSIVE DecodeStream_malformed(_, _)
DecodeStream_malformed(body, replies) ==
    IF body = <<>> THEN [replies |-> replies, err |-> NoErr]
    ELSE IF ~DecodeOK(Head(body))
    THEN [replies |-> <<>>, err |-> ErrMalformedResponse]
    ELSE DecodeStream_malformed(Tail(body), Append(replies, Decode(Head(body))))

\* the decoding loop of Client.send: replies up to io.EOF, or the first
\* error and no replies
RECURSIVE DecodeStream(_, _)
DecodeStream(body, replies) ==
    IF body = <<>> THEN [replies |-> replies, err |-> NoErr]
    ELSE IF ~DecodeOK(Head(body)) THEN [replies |-> <<>>, err |-> ErrUnmarshal]
    ELSE DecodeStream(Tail(body), Append(replies, Decode(Head(body))))

(***************************************************************************)
(* Clients (Config / New in doc.go) and what the collaborators may answer. *)
(***************************************************************************)
StaticAddr == "http://localhost:8000/api"
DynamicAddr == "http://10.0.0.2:8000/api"
\* an address url.Parse rejects
BadAddr == "://"

\* getEndpoint is nil or a resolver
Clients ==
    {[endpoint |-> StaticAddr, getEndpoint |-> FALSE, apiKey |-> "secret"],
     [endpoint |-> StaticAddr, getEndpoint |-> TRUE, apiKey |-> ""]}

\* what one invocation of the resolver returns
GetAddrResults ==
    {[addr |-> DynamicAddr, err |-> NoErr], [addr |-> BadAddr, err |-> NoErr],
     [addr |-> "", err |-> ErrGetAddr]}

\* the bodies a server may send.  Text that is no JSON value ends the
\* stream of elements: what follows it has no element boundaries, and the
\* decoder never gets past it
Bodies ==
    {b \in UNION {[1..n -> Elements] : n \in 0..MaxReplies} :
        \A i \in 1..(Len(b) - 1) : b[i].kind # "syntax"}

HTTPResponse(status, body) == [err |-> NoErr, status |-> status, body |-> body]
\* httpClient.Do fails (network, timeout, cancelled context)
TransportFailure == [err |-> ErrTransport, status |-> 0, body |-> <<>>]
NoResponse == [err |-> NoErr, status |-> 0, body |-> <<>>]

\* what httpClient.Do may return for a request
Responses ==
    {HTTPResponse(StatusOK, b) : b \in Bodies}
    \cup {HTTPResponse(st, b) : st \in {404, 500}, b \in {x \in Bodies : Len(x) <= 1}}
    \cup {TransportFailure}

NoRequest == [method |-> "", endpoint |-> "", authorization |-> "", body |-> <<>>]

\* http.NewRequest and the headers Client.send sets
NewRequest(c, endpoint, lines) ==
    [method |-> "POST", endpoint |-> endpoint,
     authorization |-> IF c.apiKey # "" THEN "apikey " \o c.apiKey ELSE "",
     body |-> lines]

(***************************************************************************)
(* State.                                                                  *)
(***************************************************************************)
VARIABLES
    commands,   \* Pipe.commands
    log,        \* the commands built by the enqueue calls since the last Reset
    pc,         \* "idle", or "inflight" while SendPipe waits in httpClient.Do
    request,    \* the HTTP request the last SendPipe issued, or NoRequest
    response,   \* what httpClient.Do returned for it, or NoResponse
    net,        \* how often the last call invoked the resolver / httpClient.Do
    last,       \* the call in progress, else the last call that returned:
                \* its name, how many commands it was given to enqueue, how
                \* many commands it dropped
    ret,        \* what the last call returned (SendPipe's replies, the
                \* error); nothing while a call is in progress
    client,     \* the Client of the last SendPipe / single-command call
    mu,         \* Pipe.mu: the goroutine that holds the lock, or NoOwner
    gs,         \* the goroutines that share the pipe: where each one is in
                \* its call, and its local variables
    mem,        \* the memory callers keep a reference to after a call: byte
                \* slices and structs behind pointers, by address
    given,      \* the operation and the decorators of the last Add* call
    result,     \* what the last single-command operation returned
    ctx         \* the context of the caller: active, canceled, or past
                \* its deadline

\* the variables only the specifications of concurrent callers, of
\* aliasing, of the decorators and of the single-command operations use
extra == <<mu, gs, mem, given, result, ctx>>

vars == <<commands, log, pc, request, response, net, last, ret, client, extra>>

Call(op, requests, discarded) ==
    [op |-> op, requests |-> requests, discarded |-> discarded]
Return(replies, err) == [replies |-> replies, err |-> err]
NoNet == [getEndpoint |-> 0, Do |-> 0]
NoClient == [endpoint |-> "", getEndpoint |-> FALSE, apiKey |-> ""]
NoOwner == 0
NoDecorators == [op |-> "", opts |-> <<>>]
NoResult == [op |-> "", value |-> "", err |-> NoErr, decoded |-> FALSE]

\* the variables of extra where they are not used
ExtraInit ==
    /\ mu = NoOwner
    /\ gs = <<>>
    /\ mem = <<>>
    /\ given = NoDecorators
    /\ result = NoResult
    /\ ctx = "active"

BaseInit ==
    /\ commands = <<>>
    /\ log = <<>>
    /\ pc = "idle"
    /\ request = NoRequest
    /\ response = NoResponse
    /\ net = NoNet
    /\ last = Call("Pipe", 0, 0)
    /\ ret = Return(<<>>, NoErr)
    /\ client = NoClient

Init == BaseInit /\ ExtraInit

(***************************************************************************)
(* Pipe (pipe.go).                                                         *)
(***************************************************************************)
\* a variant of add that puts the command in front
add_prepend(buffer, cmd) == <<cmd>> \o buffer

\* a variant of add that overwrites the last command of a buffer that is
\* not empty
add_replace(buffer, cmd) ==
    IF buffer = <<>> THEN <<cmd>>
    ELSE [buffer EXCEPT ![Len(buffer)] = cmd]

\* p.commands = append(p.commands, cmd)
add(buffer, cmd) == Append(buffer, cmd)

\* a variant of addMany that appends the first command only
addMany_first(buffer, cmds) ==
    IF cmds = <<>> THEN buffer ELSE Append(buffer, cmds[1])

\* p.commands = append(p.commands, commands...)
addMany(buffer, cmds) == buffer \o cmds

\* a variant of reset that leaves the buffer as it is
reset_keep(buffer) == buffer

\* p.commands = nil
reset(buffer) == <<>>

\* an enqueue call that built cmds and handed them to add / addMany
Enqueue(op, cmds, buffer) ==
    /\ pc = "idle"
    /\ Len(commands) + Len(cmds) <= MaxCommands
    /\ commands' = buffer
    /\ log' = log \o cmds
    /\ last' = Call(op, Len(cmds), 0)
    /\ ret' = Return(<<>>, NoErr)
    /\ net' = NoNet
    /\ request' = NoRequest
    /\ response' = NoResponse
    /\ client' = NoClient
    /\ UNCHANGED <<pc, extra>>

Reset ==
    /\ pc = "idle"
    /\ commands' = reset(commands)
    /\ log' = <<>>
    /\ last' = Call("Reset", 0, Len(commands))
    /\ ret' = Return(<<>>, NoErr)
    /\ net' = NoNet
    /\ request' = NoRequest
    /\ response' = NoResponse
    /\ client' = NoClient
    /\ UNCHANGED <<pc, extra>>

publishCommand(channel, data, opts) ==
    Command("publish",
            PublishRequest(channel, data, ApplyOptions(PublishOptions, opts)))

AddPublish(channel, data, opts) ==
    LET cmd == publishCommand(channel, data, opts)
    IN  Enqueue("AddPublish", <<cmd>>, add(commands, cmd))

\* the commands AddPublishRequests builds from the requests
publishCommands(requests) ==
    [i \in 1..Len(requests) |-> Command("publish", requests[i])]

AddPublishRequests(requests) ==
    LET cmds == publishCommands(requests)
    IN  Enqueue("AddPublishRequests", cmds, addMany(commands, cmds))

broadcastCommand(channels, data, opts) ==
    Command("broadcast",
            broadcastRequest(channels, data, ApplyOptions(PublishOptions, opts)))

AddBroadcast(channels, data, opts) ==
    LET cmd == broadcastCommand(channels, data, opts)
    IN  Enqueue("AddBroadcast", <<cmd>>, add(commands, cmd))

\* a variant of subscribeCommand with the method of AddUnsubscribe
subscribeCommand_unsubscribe(channel, user, opts) ==
    Command("unsubscribe",
            subscribeRequest(channel, user, ApplyOptions(SubscribeOptions, opts)))

subscribeCommand(channel, user, opts) ==
    Command("subscribe",
            subscribeRequest(channel, user, ApplyOptions(SubscribeOptions, opts)))

AddSubscribe(channel, user, opts) ==
    LET cmd == subscribeCommand(channel, user, opts)
    IN  Enqueue("AddSubscribe", <<cmd>>, add(commands, cmd))

unsubscribeCommand(channel, user, opts) ==
    Command("unsubscribe",
            unsubscribeRequest(channel, user, ApplyOptions(UnsubscribeOptions, opts)))

AddUnsubscribe(channel, user, opts) ==
    LET cmd == unsubscribeCommand(channel, user, opts)
    IN  Enqueue("AddUnsubscribe", <<cmd>>, add(commands, cmd))

disconnectCommand(user, opts) ==
    Command("disconnect",
            disconnectRequest(user, ApplyOptions(DisconnectOptions, opts)))

AddDisconnect(user, opts) ==
    LET cmd == disconnectCommand(user, opts)
    IN  Enqueue("AddDisconnect", <<cmd>>, add(commands, cmd))

AddPresence(channel) ==
    LET cmd == Command("presence", channelMap(channel))
    IN  Enqueue("AddPresence", <<cmd>>, add(commands, cmd))

AddPresenceStats(channel) ==
    LET cmd == Command("presence_stats", channelMap(channel))
    IN  Enqueue("AddPresenceStats", <<cmd>>, add(commands, cmd))

historyCommand(channel, opts) ==
    Command("history", historyRequest(channel, ApplyOptions(HistoryOptions, opts)))

AddHistory(channel, opts) ==
    LET cmd == historyCommand(channel, opts)
    IN  Enqueue("AddHistory", <<cmd>>, add(commands, cmd))

AddHistoryRemove(channel) ==
    LET cmd == Command("history_remove", channelMap(channel))
    IN  Enqueue("AddHistoryRemove", <<cmd>>, add(commands, cmd))

channelsCommand(opts) ==
    Command("channels", channelsRequest(ApplyOptions(ChannelsOptions, opts).Pattern))

AddChannels(opts) ==
    LET cmd == channelsCommand(opts)
    IN  Enqueue("AddChannels", <<cmd>>, add(commands, cmd))

AddInfo ==
    LET cmd == Command("info", emptyMap)
    IN  Enqueue("AddInfo", <<cmd>>, add(commands, cmd))

(***************************************************************************)
(* Client.SendPipe and Client.send (doc.go).                               *)
(***************************************************************************)
\* SendPipe returns before the network is touched
SendPipeFails(err, resolved) ==
    /\ last' = Call("SendPipe", 0, 0)
    /\ ret' = Return(<<>>, err)
    /\ net' = [getEndpoint |-> resolved, Do |-> 0]
    /\ request' = NoRequest
    /\ response' = NoResponse
    /\ UNCHANGED <<commands, log, pc, extra>>

\* send from http.NewRequest to the call of httpClient.Do
\* a variant of sendRequest that posts to the static address of the client
sendRequest_static(c, endpoint, lines, resolved) ==
    IF endpoint = BadAddr
    THEN SendPipeFails(ErrNewRequest, resolved)
    ELSE /\ request' = NewRequest(c, c.endpoint, lines)
         /\ net' = [getEndpoint |-> resolved, Do |-> 1]
         /\ pc' = "inflight"
         /\ response' = NoResponse
         /\ last' = Call("SendPipe", 0, 0)
         /\ ret' = Return(<<>>, NoErr)
         /\ UNCHANGED <<commands, log, extra>>

\* http.NewRequest, the headers, and httpClient.Do up to where it blocks
sendRequest(c, endpoint, lines, resolved) ==
    IF endpoint = BadAddr
    THEN SendPipeFails(ErrNewRequest, resolved)
    ELSE /\ request' = NewRequest(c, endpoint, lines)
         /\ net' = [getEndpoint |-> resolved, Do |-> 1]
         /\ pc' = "inflight"
         /\ response' = NoResponse
         /\ last' = Call("SendPipe", 0, 0)
         /\ ret' = Return(<<>>, NoErr)
         /\ UNCHANGED <<commands, log, extra>>

\* a variant of pipeEmpty that lets every pipe pass
pipeEmpty_never(buffer) == FALSE

\* len(pipe.commands) == 0
pipeEmpty(buffer) == Len(buffer) = 0

\* a variant of SendPipe that posts to the static address when the
\* resolver fails
SendPipe_fallback(c) ==
    /\ pc = "idle"
    /\ client' = c
    /\ IF pipeEmpty(commands)
       THEN SendPipeFails(ErrPipeEmpty, 0)
       ELSE LET enc == EncodeAll(commands)
            IN  IF enc.err # NoErr
                THEN SendPipeFails(enc.err, 0)
                ELSE IF c.getEndpoint
                THEN \E r \in GetAddrResults :
                        IF r.err # NoErr
                        THEN sendRequest(c, c.endpoint, enc.lines, 1)
                        ELSE sendRequest(c, r.addr, enc.lines, 1)
                ELSE sendRequest(c, c.endpoint, enc.lines, 0)

\* SendPipe up to the point where send blocks in httpClient.Do
SendPipe(c) ==
    /\ pc = "idle"
    /\ client' = c
    /\ IF pipeEmpty(commands)
       THEN SendPipeFails(ErrPipeEmpty, 0)
       ELSE LET enc == EncodeAll(commands)
            IN  IF enc.err # NoErr
                THEN SendPipeFails(enc.err, 0)
                ELSE IF c.getEndpoint
                THEN \E r \in GetAddrResults :
                        IF r.err # NoErr
                        THEN SendPipeFails(r.err, 1)
                        ELSE sendRequest(c, r.addr, enc.lines, 1)
                ELSE sendRequest(c, c.endpoint, enc.lines, 0)

\* a variant of sendReturn that does not look at the status
sendReturn_ignoreStatus(resp) ==
    IF resp.err # NoErr THEN [replies |-> <<>>, err |-> resp.err]
    ELSE DecodeStream(resp.body, <<>>)

\* what send returns once httpClient.Do returned resp
sendReturn(resp) ==
    IF resp.err # NoErr THEN [replies |-> <<>>, err |-> resp.err]
    ELSE IF resp.status # StatusOK
    THEN [replies |-> <<>>, err |-> ErrStatusCode(resp.status)]
    ELSE DecodeStream(resp.body, <<>>)

\* a variant of SendPipeReturn without the comparison of the counts
SendPipeReturn_nocheck(buffer, sent) ==
    IF sent.err # NoErr THEN Return(<<>>, sent.err)
    ELSE Return(sent.replies, NoErr)

\* a variant of SendPipeReturn that rejects too few replies only
SendPipeReturn_lessOnly(buffer, sent) ==
    IF sent.err # NoErr THEN Return(<<>>, sent.err)
    ELSE IF Len(sent.replies) < Len(buffer)
    THEN Return(<<>>, ErrMalformedResponse)
    ELSE Return(sent.replies, NoErr)

\* what SendPipe returns once send returned sent
SendPipeReturn(buffer, sent) ==
    IF sent.err # NoErr THEN Return(<<>>, sent.err)
    ELSE IF Len(sent.replies) # Len(buffer)
    THEN Return(<<>>, ErrMalformedResponse)
    ELSE Return(sent.replies, NoErr)

\* a variant of SendPipeDone that posts the request again after a transport
\* failure
SendPipeDone_retry(resp) ==
    /\ pc = "inflight"
    /\ response' = resp
    /\ IF resp.err # NoErr /\ net.Do < 2
       THEN /\ net' = [net EXCEPT !.Do = @ + 1]
            /\ UNCHANGED <<ret, last, pc>>
       ELSE /\ ret' = SendPipeReturn(commands, sendReturn(resp))
            /\ last' = Call("SendPipe", 0, 0)
            /\ pc' = "idle"
            /\ UNCHANGED net
    /\ UNCHANGED <<commands, log, request, client, extra>>

\* a variant of SendPipeDone that empties the buffer
SendPipeDone_clear(resp) ==
    /\ pc = "inflight"
    /\ response' = resp
    /\ ret' = SendPipeReturn(commands, sendReturn(resp))
    /\ last' = Call("SendPipe", 0, 0)
    /\ pc' = "idle"
    /\ commands' = <<>>
    /\ UNCHANGED <<log, request, net, client, extra>>

\* httpClient.Do returns resp; send and SendPipe run to their end
SendPipeDone(resp) ==
    /\ pc = "inflight"
    /\ response' = resp
    /\ ret' = SendPipeReturn(commands, sendReturn(resp))
    /\ last' = Call("SendPipe", 0, 0)
    /\ pc' = "idle"
    /\ UNCHANGED <<commands, log, request, net, client, extra>>

(***************************************************************************)
(* The callers: one goroutine that uses the pipe, one call after another.  *)
(***************************************************************************)
PublishOptionInputs == {<<>>, <<WithSkipHistory(TRUE)>>}
PublishRequestInputs ==
    {PublishRequest(Channel, d, ApplyOptions(PublishOptions, o)) :
        d \in Data, o \in PublishOptionInputs}
PublishRequestLists == UNION {[1..n -> PublishRequestInputs] : n \in 0..MaxRequests}

Next ==
    \/ \E d \in Data, o \in PublishOptionInputs : AddPublish(Channel, d, o)
    \/ \E rs \in PublishRequestLists : AddPublishRequests(rs)
    \/ \E d \in Data : AddBroadcast(<<Channel>>, d, <<>>)
    \/ AddSubscribe(Channel, User, <<>>)
    \/ AddUnsubscribe(Channel, User, <<>>)
    \/ AddDisconnect(User, <<>>)
    \/ AddPresence(Channel)
    \/ AddPresenceStats(Channel)
    \/ AddHistory(Channel, <<>>)
    \/ AddHistoryRemove(Channel)
    \/ AddChannels(<<>>)
    \/ AddInfo
    \/ Reset
    \/ \E c \in Clients : SendPipe(c)
    \/ \E resp \in Responses : SendPipeDone(resp)

Spec == Init /\ [][Next]_vars

(***************************************************************************)
(* The decorators: every Add* that takes options, called on a new pipe     *)
(* with every list of decorators up to MaxOptions.                         *)
(***************************************************************************)
MaxOptions == 3

StreamPositions == {[isNil |-> FALSE, Offset |-> 1, Epoch |-> "e1"]}
Disconnects ==
    {[isNil |-> FALSE, Code |-> 3000, Reason |-> "bye", Reconnect |-> FALSE]}
ClientIDs == {"c1", "c2"}

PublishDecorators == {WithSkipHistory(b) : b \in BOOLEAN}
SubscribeDecorators ==
    {WithPresence(b) : b \in BOOLEAN}
    \cup {WithSubscribeClient(id) : id \in ClientIDs}
    \cup {WithRecoverSince(sp) : sp \in StreamPositions}
UnsubscribeDecorators == {WithUnsubscribeClient(id) : id \in ClientIDs}
DisconnectDecorators ==
    {WithDisconnect(d) : d \in Disconnects}
    \cup {WithDisconnectClient(id) : id \in ClientIDs}
    \cup {WithDisconnectClientWhitelist(<<"c1">>)}
HistoryDecorators ==
    {WithLimit(n) : n \in {0, 1}}
    \cup {WithReverse(TRUE)}
    \cup {WithSince(sp) : sp \in StreamPositions}
ChannelsDecorators == {WithPattern(p) : p \in {"", "ch*"}}

\* the operations that take decorators, and the decorators of each
DecoratedOps ==
    {"AddPublish", "AddBroadcast", "AddSubscribe", "AddUnsubscribe",
     "AddDisconnect", "AddHistory", "AddChannels"}
DecoratorsOf(op) ==
    CASE op \in {"AddPublish", "AddBroadcast"} -> PublishDecorators
      [] op = "AddSubscribe" -> SubscribeDecorators
      [] op = "AddUnsubscribe" -> UnsubscribeDecorators
      [] op = "AddDisconnect" -> DisconnectDecorators
      [] op = "AddHistory" -> HistoryDecorators
      [] op = "AddChannels" -> ChannelsDecorators

\* the variadic opts argument: every list of at most MaxOptions decorators
OptionLists(decorators) ==
    UNION {[1..n -> decorators] : n \in 0..MaxOptions}

\* the command the operation builds from the decorators
BuildCommand(op, opts) ==
    CASE op = "AddPublish" -> publishCommand(Channel, "d1", opts)
      [] op = "AddBroadcast" -> broadcastCommand(<<Channel>>, "d1", opts)
      [] op = "AddSubscribe" -> subscribeCommand(Channel, User, opts)
      [] op = "AddUnsubscribe" -> unsubscribeCommand(Channel, User, opts)
      [] op = "AddDisconnect" -> disconnectCommand(User, opts)
      [] op = "AddHistory" -> historyCommand(Channel, opts)
      [] op = "AddChannels" -> channelsCommand(opts)

\* pipe := c.Pipe(); pipe.Add...(..., opts...)
Decorate(op, opts) ==
    /\ commands' = add(<<>>, BuildCommand(op, opts))
    /\ given' = [op |-> op, opts |-> opts]
    /\ last' = Call(op, 1, 0)
    /\ ret' = Return(<<>>, NoErr)
    /\ UNCHANGED <<log, pc, request, response, net, client, mu, gs, mem, result,
                   ctx>>

NextOptions ==
    \E op \in DecoratedOps : \E opts \in OptionLists(DecoratorsOf(op)) :
        Decorate(op, opts)

SpecOptions == Init /\ [][NextOptions]_vars

(***************************************************************************)
(* Properties.                                                             *)
(***************************************************************************)
\* the last call was op and it has returned
Returned(op) == pc = "idle" /\ last.op = op

\* the response of the last exchange is a 200 whose elements all decode
Parsed200 ==
    /\ response.err = NoErr
    /\ response.status = StatusOK
    /\ \A i \in 1..Len(response.body) : DecodeOK(response.body[i])

\* the response of the last exchange is a 200 with an element that is no JSON
Unparsed200 ==
    /\ response.err = NoErr
    /\ response.status = StatusOK
    /\ \E i \in 1..Len(response.body) : ~DecodeOK(response.body[i])

SingleAddOps ==
    {"AddPublish", "AddBroadcast", "AddSubscribe", "AddUnsubscribe",
     "AddDisconnect", "AddPresence", "AddPresenceStats", "AddHistory",
     "AddHistoryRemove", "AddChannels", "AddInfo"}

\* C1: calls made one after another leave the buffer equal to the commands
\* they built, in call order, and the request SendPipe issues carries one
\* JSON value per buffered command in that order.
C1_OrderPreserved ==
    /\ commands = log
    /\ pc = "inflight" =>
          /\ Len(request.body) = Len(log)
          /\ \A i \in 1..Len(log) :
                /\ request.body[i].method = log[i].Method
                /\ request.body[i].params = MarshalParams(log[i].Params)

C1_Witness ==
    /\ pc = "inflight"
    /\ Len(commands) = 2
    /\ commands[1].Method = "publish"
    /\ commands[2].Method = "info"
    /\ request.body[1].method = "publish"

\* C2: when SendPipe returns without error on a pipe of N commands, it returns
\* N replies, and reply i is element i of the response stream.
C2_RepliesPositional ==
    (Returned("SendPipe") /\ ret.err = NoErr) =>
        /\ Len(ret.replies) = Len(commands)
        /\ Len(response.body) = Len(commands)
        /\ \A i \in 1..Len(commands) :
              ret.replies[i] = Reply(response.body[i].error, response.body[i].result)

C2_Witness ==
    /\ Returned("SendPipe")
    /\ ret.err = NoErr
    /\ Len(commands) = 2
    /\ ret.replies[1] # ret.replies[2]

\* C3: SendPipe on an empty pipe fails with ErrPipeEmpty, issues no HTTP
\* request and does not invoke the endpoint resolver.
C3_EmptyPipeRejected ==
    /\ (Returned("SendPipe") /\ commands = <<>>) =>
          /\ ret = Return(<<>>, ErrPipeEmpty)
          /\ net = NoNet
          /\ request = NoRequest
    /\ pc = "inflight" => commands # <<>>

C3_Witness ==
    /\ Returned("SendPipe")
    /\ commands = <<>>
    /\ ret.err = ErrPipeEmpty

\* C4: a 200 response whose elements all decode but whose number of replies
\* differs from the number of commands makes SendPipe fail with
\* ErrMalformedResponse and return no replies.
C4_CountMismatch ==
    (Parsed200 /\ Len(response.body) # Len(commands)) =>
        ret = Return(<<>>, ErrMalformedResponse)

C4_Witness ==
    /\ Parsed200
    /\ Len(commands) = 2
    /\ Len(response.body) = 1
    /\ ret.err = ErrMalformedResponse

\* C5: when the server answers N commands with N replies, some of them with
\* an error, SendPipe returns no error and all N replies; a reply carries an
\* error exactly where the server reported one, and every reply carries the
\* result the server sent.
C5_ErrorIsolation ==
    (Parsed200 /\ Len(response.body) = Len(commands)) =>
        /\ ret.err = NoErr
        /\ Len(ret.replies) = Len(commands)
        /\ \A i \in 1..Len(commands) :
              /\ ret.replies[i].Error = response.body[i].error
              /\ ret.replies[i].Result = response.body[i].result

C5_Witness ==
    /\ Parsed200
    /\ Len(commands) = 2
    /\ ret.err = NoErr
    /\ ret.replies[1].Error # ""
    /\ ret.replies[2].Error = ""
    /\ ret.replies[2].Result = "r1"

\* C6: after Reset the buffer is empty whatever it held; a SendPipe while no
\* command was added since fails with ErrPipeEmpty without a request; and the
\* buffer holds exactly the commands added since the last Reset.
C6_ResetClears ==
    /\ Returned("Reset") => Len(commands) = 0
    /\ (Returned("SendPipe") /\ log = <<>>) =>
          (ret.err = ErrPipeEmpty /\ net.Do = 0)
    /\ Len(commands) = Len(log)
    /\ \A i \in 1..Len(log) : commands[i] = log[i]

C6_Witness ==
    /\ Returned("Reset")
    /\ last.discarded = MaxCommands
    /\ commands = <<>>

\* C7: a response with a status other than 200 makes SendPipe fail with
\* ErrStatusCode carrying that status and return no replies, whatever the
\* body holds.
C7_StatusCode ==
    (response.err = NoErr /\ response.status \notin {0, StatusOK}) =>
        ret = Return(<<>>, ErrStatusCode(response.status))

C7_Witness ==
    /\ response.err = NoErr
    /\ response.status = 500
    /\ Len(commands) = 1
    /\ Len(response.body) = 1
    /\ DecodeOK(response.body[1])
    /\ ret.err = ErrStatusCode(500)

\* C8: when an element of the response stream fails to decode, SendPipe
\* returns an error and no replies, also when elements before it decoded.
C8_NoPartialReplies ==
    Unparsed200 => (ret.err # NoErr /\ ret.replies = <<>>)

C8_Witness ==
    /\ Unparsed200
    /\ Len(commands) = 1
    /\ Len(response.body) = 2
    /\ DecodeOK(response.body[1])
    /\ ret.err # NoErr

\* C9 as stated: an element that fails to decode is reported as
\* ErrMalformedResponse.
C9_DecodeErrorIsMalformedResponse ==
    Unparsed200 => ret.err = ErrMalformedResponse

\* C9, amended: an element that fails to decode is reported with the error of
\* the JSON decoder, which is not ErrMalformedResponse; SendPipe returns
\* ErrMalformedResponse only when all elements decoded and their number is
\* not the number of commands.
C9_DecodeErrorIsDecoderError ==
    /\ Unparsed200 => (ret.err = ErrUnmarshal /\ ret.err # ErrMalformedResponse)
    /\ ret.err = ErrMalformedResponse =>
          (Parsed200 /\ Len(response.body) # Len(commands))

C9_Witness ==
    /\ Unparsed200
    /\ Len(response.body) = Len(commands) + 1
    /\ ret.err = ErrUnmarshal

\* C10: an Add* call makes the buffer one command longer, AddPublishRequests
\* with N requests makes it N commands longer, and the commands buffered
\* before keep their position and content.
C10_AppendFrame ==
    [][(pc = "idle" /\ pc' = "idle"
            /\ last'.op \in SingleAddOps \cup {"AddPublishRequests"}) =>
          /\ last'.op \in SingleAddOps => Len(commands') = Len(commands) + 1
          /\ last'.op = "AddPublishRequests" =>
                Len(commands') = Len(commands) + last'.requests
          /\ SubSeq(commands', 1, Len(commands)) = commands]_vars

C10_Witness ==
    /\ Returned("AddPublishRequests")
    /\ last.requests = 1
    /\ Len(commands) = 2
    /\ commands[1].Method = "info"

(***************************************************************************)
(* The endpoint, the number of requests, and serialization failures.       *)
(***************************************************************************)
\* the addresses the resolver hands out
ResolvedAddrs == {r.addr : r \in {x \in GetAddrResults : x.err = NoErr}}

\* C16: a SendPipe that reaches the network has invoked the resolver of a
\* client that has one exactly once, before the request is posted, and the
\* request goes to the address the resolver returned, never to the static
\* one; with a client without resolver the resolver is not invoked and the
\* request goes to the static address.
C16_ResolverOncePerSend ==
    (last.op = "SendPipe" /\ net.Do = 1) =>
        IF client.getEndpoint
        THEN /\ net.getEndpoint = 1
             /\ request.endpoint \in ResolvedAddrs
             /\ request.endpoint # client.endpoint
        ELSE /\ net.getEndpoint = 0
             /\ request.endpoint = client.endpoint

C16_Witness ==
    /\ Returned("SendPipe")
    /\ client.getEndpoint
    /\ net = [getEndpoint |-> 1, Do |-> 1]
    /\ request.endpoint = DynamicAddr
    /\ ret.err = NoErr

\* C17: one SendPipe posts at most one request; the request carries one
\* line per command of the pipe, in order, and nothing else; when the
\* request fails the call returns the failure without posting again.
C17_AtMostOneRequest ==
    /\ [](last.op = "SendPipe" =>
            /\ net.Do <= 1
            /\ net.Do = 1 =>
                  /\ Len(request.body) = Len(commands)
                  /\ \A i \in 1..Len(commands) :
                        /\ request.body[i].method = commands[i].Method
                        /\ request.body[i].params
                              = MarshalParams(commands[i].Params))
    /\ [][pc = "inflight" =>
            /\ pc' = "idle"
            /\ net' = net
            /\ request' = request
            /\ (sendReturn(response').err # NoErr =>
                    ret' = Return(<<>>, sendReturn(response').err))]_vars

C17_Witness ==
    /\ Returned("SendPipe")
    /\ net.Do = 1
    /\ Len(request.body) = 2
    /\ response = TransportFailure
    /\ ret = Return(<<>>, ErrTransport)

\* whether json.Marshal rejects the command: its data is no JSON document
Unserializable(cmd) ==
    /\ cmd.Method \in {"publish", "broadcast"}
    /\ cmd.Params.Data \notin JSONDocs \cup {""}

\* C20: every Add* operation and AddPublishRequests returns success, also
\* for data that cannot be serialized; a SendPipe of a pipe that holds
\* such a command fails with the serialization error, before any request.
C20_AddNeverFails ==
    /\ (pc = "idle" /\ last.op \in SingleAddOps \cup {"AddPublishRequests"})
            => ret.err = NoErr
    /\ (Returned("SendPipe") /\ \E i \in 1..Len(commands) :
                                    Unserializable(commands[i]))
            => (ret = Return(<<>>, ErrMarshal) /\ net = NoNet)

\* C21: after a SendPipe failed because a command cannot be serialized,
\* the buffer does not hold that command, and the other commands can be
\* sent without a Reset.
C21_FailedCommandNotBuffered ==
    (Returned("SendPipe") /\ ret.err = ErrMarshal) =>
        \A i \in 1..Len(commands) : ~Unserializable(commands[i])

\* C23: no operation but Reset removes, replaces or reorders buffered
\* commands: in every step that is not a Reset the buffer before the step
\* is a prefix of the buffer after it.
C23_BufferOnlyGrows ==
    [][last'.op # "Reset" =>
          /\ Len(commands) <= Len(commands')
          /\ SubSeq(commands', 1, Len(commands)) = commands]_vars

C23_Witness ==
    /\ Returned("AddHistoryRemove")
    /\ Len(commands) = 2
    /\ commands[1].Method = "presence"
    /\ commands[2].Method = "history_remove"

\* the method the protocol names for each operation
MethodOf ==
    [AddPublish |-> "publish", AddPublishRequests |-> "publish",
     AddBroadcast |-> "broadcast", AddSubscribe |-> "subscribe",
     AddUnsubscribe |-> "unsubscribe", AddDisconnect |-> "disconnect",
     AddPresence |-> "presence", AddPresenceStats |-> "presence_stats",
     AddHistory |-> "history", AddHistoryRemove |-> "history_remove",
     AddChannels |-> "channels", AddInfo |-> "info"]

C27_ResolverError ==
    /\ (Returned("SendPipe") /\ ret.err = ErrGetAddr) =>
            /\ client.getEndpoint
            /\ net = [getEndpoint |-> 1, Do |-> 0]
            /\ request = NoRequest
            /\ ret.replies = <<>>
    /\ (Returned("SendPipe") /\ net = [getEndpoint |-> 1, Do |-> 0]) =>
            ret \in {Return(<<>>, ErrGetAddr), Return(<<>>, ErrNewRequest)}
    /\ (last.op = "SendPipe" /\ client.getEndpoint /\ net.Do > 0) =>
            (net.getEndpoint = 1 /\ request.endpoint \in ResolvedAddrs)

C27_Witness ==
    /\ Returned("SendPipe")
    /\ ret = Return(<<>>, ErrGetAddr)
    /\ client.endpoint = StaticAddr
    /\ Len(commands) = 2

\* C28: SendPipe serializes every command of the buffer before it does
\* anything else: when a command cannot be serialized, also the last one
\* after commands that can, the resolver is not invoked and no request is
\* posted.
C28_EncodeBeforeNetwork ==
    (last.op = "SendPipe" /\ \E i \in 1..Len(commands) :
                                 Unserializable(commands[i]))
        => (pc = "idle" /\ net.getEndpoint = 0 /\ net.Do = 0
                /\ request = NoRequest)

C28_Witness ==
    /\ Returned("SendPipe")
    /\ client.getEndpoint
    /\ Len(commands) = 2
    /\ commands[1].Method = "info"
    /\ Unserializable(commands[2])
    /\ net = NoNet

\* C29: SendPipe does not modify the buffer, whether it succeeds or
\* fails: no step of a SendPipe changes it.
C29_SendPipeKeepsBuffer ==
    [][last'.op = "SendPipe" => commands' = commands]_vars

C29_Witness ==
    /\ Returned("SendPipe")
    /\ ret.err = NoErr
    /\ Len(ret.replies) = 2
    /\ commands[1].Method = "channels"
    /\ commands[2].Method = "info"

C20_Witness ==
    /\ Returned("SendPipe")
    /\ Len(commands) = 2
    /\ ~Unserializable(commands[1])
    /\ Unserializable(commands[2])
    /\ ret.err = ErrMarshal

(***************************************************************************)
(* Concurrent callers: NumGoroutines goroutines share one pipe, and each   *)
(* makes one call.  Reset, add and addMany take Pipe.mu around their read  *)
(* and their write of p.commands; SendPipe reads pipe.commands three       *)
(* times, and takes no lock.  A read that races with a write sees the      *)
(* slice as it was before the write or as it is after it.                  *)
(***************************************************************************)
NumGoroutines == 3
Goroutines == 1..NumGoroutines

\* a goroutine that has not made its call; ticket is its place in the
\* order in which the lock was acquired, where that order is recorded
GoStart ==
    [pc |-> "start", op |-> "", cmds |-> <<>>, old |-> <<>>, sent |-> <<>>,
     ret |-> Return(<<>>, NoErr), ticket |-> 0]

\* what the goroutines enqueue
ConcCommands == {Command("info", emptyMap), publishCommand(Channel, "d1", <<>>)}
ConcBatches ==
    {<<PublishRequest(Channel, "d1", PublishOptions),
       PublishRequest(Channel, "d2", PublishOptions)>>}

\* the pipe is new, or holds a command of an earlier call
InitConc ==
    /\ commands \in {<<>>, <<Command("info", emptyMap)>>}
    /\ log = commands
    /\ pc = "idle"
    /\ request = NoRequest
    /\ response = NoResponse
    /\ net = NoNet
    /\ last = Call("Pipe", 0, 0)
    /\ ret = Return(<<>>, NoErr)
    /\ client = NoClient
    /\ mu = NoOwner
    /\ gs = [g \in Goroutines |-> GoStart]
    /\ mem = <<>>
    /\ given = NoDecorators
    /\ result = NoResult
    /\ ctx = "active"

\* a variant of canLock that never makes the caller wait
canLock_always(owner) == TRUE

\* p.mu.Lock() returns when no goroutine holds the lock
canLock(owner) == owner = NoOwner

\* the goroutine left alone
ConcFrame == UNCHANGED <<pc, request, response, net, last, ret, client, mem,
                         given, result, ctx>>

\* p.mu.Lock() of Reset, add or addMany, called with the commands built
ConcLock(g, op, cmds) ==
    /\ gs[g].pc = "start"
    /\ canLock(mu)
    /\ mu' = g
    /\ gs' = [gs EXCEPT ![g] = [@ EXCEPT !.pc = IF op = "Reset" THEN "write"
                                                ELSE "read",
                                         !.op = op, !.cmds = cmds]]
    /\ UNCHANGED <<commands, log>>
    /\ ConcFrame

\* append(p.commands, ...) reads the slice
ConcRead(g) ==
    /\ gs[g].pc = "read"
    /\ gs' = [gs EXCEPT ![g] = [@ EXCEPT !.pc = "write", !.old = commands]]
    /\ UNCHANGED <<commands, log, mu>>
    /\ ConcFrame

\* p.commands = ...; the log keeps every append that was made
ConcWrite(g) ==
    /\ gs[g].pc = "write"
    /\ commands' = CASE gs[g].op = "Reset" -> reset(commands)
                      [] gs[g].op = "AddPublishRequests" ->
                            addMany(gs[g].old, gs[g].cmds)
                      [] OTHER -> add(gs[g].old, gs[g].cmds[1])
    /\ log' = IF gs[g].op = "Reset" THEN <<>> ELSE log \o gs[g].cmds
    /\ gs' = [gs EXCEPT ![g] = [@ EXCEPT !.pc = "unlock"]]
    /\ UNCHANGED mu
    /\ ConcFrame

\* the deferred p.mu.Unlock(), and the return
ConcUnlock(g) ==
    /\ gs[g].pc = "unlock"
    /\ mu' = NoOwner
    /\ gs' = [gs EXCEPT ![g] = [@ EXCEPT !.pc = "done"]]
    /\ UNCHANGED <<commands, log>>
    /\ ConcFrame

\* SendPipe: if len(pipe.commands) == 0
ConcSendPipe(g) ==
    /\ gs[g].pc = "start"
    /\ gs' = [gs EXCEPT ![g] =
                IF pipeEmpty(commands)
                THEN [@ EXCEPT !.pc = "done", !.op = "SendPipe",
                               !.ret = Return(<<>>, ErrPipeEmpty)]
                ELSE [@ EXCEPT !.pc = "send", !.op = "SendPipe"]]
    /\ UNCHANGED <<commands, log, mu>>
    /\ ConcFrame

\* SendPipe: c.send(ctx, pipe.commands) up to where it blocks in
\* httpClient.Do
ConcSend(g, c) ==
    /\ gs[g].pc = "send"
    /\ LET enc == EncodeAll(commands)
           fails(err) == gs' = [gs EXCEPT ![g] =
                                  [@ EXCEPT !.pc = "done",
                                            !.ret = Return(<<>>, err)]]
           posts == gs' = [gs EXCEPT ![g] =
                             [@ EXCEPT !.pc = "wait", !.sent = commands]]
       IN  IF enc.err # NoErr THEN fails(enc.err)
           ELSE IF c.getEndpoint
           THEN \E r \in GetAddrResults :
                   IF r.err # NoErr THEN fails(r.err)
                   ELSE IF r.addr = BadAddr THEN fails(ErrNewRequest)
                   ELSE posts
           ELSE posts
    /\ UNCHANGED <<commands, log, mu>>
    /\ ConcFrame

\* SendPipe: send returns, and the number of replies is compared with
\* len(pipe.commands)
ConcSendPipeDone(g, resp) ==
    /\ gs[g].pc = "wait"
    /\ gs' = [gs EXCEPT ![g] =
                [@ EXCEPT !.pc = "done",
                          !.ret = SendPipeReturn(commands, sendReturn(resp))]]
    /\ UNCHANGED <<commands, log, mu>>
    /\ ConcFrame

\* the server answers every command of the request with one reply
FaithfulBody(n) == [i \in 1..n |-> Element("object", "", "r1")]

NextConc ==
    \E g \in Goroutines :
        \/ \E cmd \in ConcCommands : ConcLock(g, "Add", <<cmd>>)
        \/ \E rs \in ConcBatches :
                ConcLock(g, "AddPublishRequests", publishCommands(rs))
        \/ ConcLock(g, "Reset", <<>>)
        \/ ConcRead(g)
        \/ ConcWrite(g)
        \/ ConcUnlock(g)
        \/ ConcSendPipe(g)
        \/ \E c \in Clients : ConcSend(g, c)
        \/ ConcSendPipeDone(g, TransportFailure)
        \/ ConcSendPipeDone(g, HTTPResponse(StatusOK,
                                            FaithfulBody(Len(gs[g].sent))))

SpecConc == InitConc /\ [][NextConc]_vars

\* how often the command is in the sequence
Count(seq, cmd) == Cardinality({i \in 1..Len(seq) : seq[i] = cmd})

\* the goroutines whose append is made
Appended ==
    {g \in Goroutines : gs[g].op \in {"Add", "AddPublishRequests"}
                          /\ gs[g].pc \in {"unlock", "done"}}

\* C11: whatever the interleaving of concurrent Add* and
\* AddPublishRequests calls, the buffer holds every command that was
\* appended exactly once and nothing else, and, as long as no Reset ran,
\* the commands of each call that made its append are in the buffer next
\* to each other and in the order of the call.
C11_NoLostAppend ==
    /\ Len(commands) = Len(log)
    /\ \A i \in 1..Len(log) : Count(commands, log[i]) = Count(log, log[i])
    /\ (\A g \in Goroutines : gs[g].op # "Reset") =>
          \A g \in Appended :
             \E k \in 0..(Len(commands) - Len(gs[g].cmds)) :
                SubSeq(commands, k + 1, k + Len(gs[g].cmds)) = gs[g].cmds

C11_Witness ==
    /\ \A g \in Goroutines : gs[g].pc = "done"
    /\ gs[1].op = "Add"
    /\ gs[2].op = "AddPublishRequests"
    /\ gs[3].op = "Add"
    /\ Len(commands) = 4
    /\ commands[1] = gs[3].cmds[1]
    /\ SubSeq(commands, 2, 3) = gs[2].cmds
    /\ commands[4] = gs[1].cmds[1]

\* C30: whatever the interleaving of SendPipe with concurrent Reset
\* calls, every request that is posted carries at least one command.
C30_NoEmptyRequest ==
    \A g \in Goroutines : gs[g].pc = "wait" => Len(gs[g].sent) >= 1

\* C12: a SendPipe that runs while other goroutines call Add* or Reset
\* on the pipe never fails with ErrMalformedResponse when the server
\* answers every command it was sent with one reply.
C12_ConsistentSendPipe ==
    \A g \in Goroutines :
        (gs[g].op = "SendPipe" /\ gs[g].pc = "done")
            => gs[g].ret.err # ErrMalformedResponse

(***************************************************************************)
(* Waiting for the lock: a call of Reset, add or addMany is made, then     *)
(* waits in p.mu.Lock() until the lock is free.  sync.Mutex hands the lock *)
(* to a goroutine that waits for it, and a goroutine that runs goes on     *)
(* running; the network call of SendPipe may never return.                 *)
(***************************************************************************)
LiveCommands == {Command("info", emptyMap)}
LiveClient == [endpoint |-> StaticAddr, getEndpoint |-> FALSE, apiKey |-> "secret"]

\* the call is made: the command is built and p.mu.Lock() is called
ConcCall(g, op, cmds) ==
    /\ gs[g].pc = "start"
    /\ gs' = [gs EXCEPT ![g] = [@ EXCEPT !.pc = "lock", !.op = op, !.cmds = cmds]]
    /\ UNCHANGED <<commands, log, mu>>
    /\ ConcFrame

\* the tickets given so far
Tickets == {gs[g].ticket : g \in Goroutines}
NextTicket == 1 + (CHOOSE t \in Tickets : \A u \in Tickets : u <= t)

\* a variant of ConcAcquire that does not wait for the lock
ConcAcquire_barge(g) ==
    /\ gs[g].pc = "lock"
    /\ mu' = g
    /\ gs' = [gs EXCEPT ![g] = [@ EXCEPT !.pc = IF gs[g].op = "Reset" THEN "write"
                                                ELSE "read",
                                         !.ticket = NextTicket]]
    /\ UNCHANGED <<commands, log>>
    /\ ConcFrame

\* p.mu.Lock() returns
ConcAcquire(g) ==
    /\ gs[g].pc = "lock"
    /\ canLock(mu)
    /\ mu' = g
    /\ gs' = [gs EXCEPT ![g] = [@ EXCEPT !.pc = IF gs[g].op = "Reset" THEN "write"
                                                ELSE "read",
                                         !.ticket = NextTicket]]
    /\ UNCHANGED <<commands, log>>
    /\ ConcFrame

\* a variant of ConcRelease that returns with the lock held
ConcRelease_leak(g) ==
    /\ gs[g].pc = "unlock"
    /\ gs' = [gs EXCEPT ![g] = [@ EXCEPT !.pc = "done"]]
    /\ UNCHANGED <<commands, log, mu>>
    /\ ConcFrame

\* the deferred p.mu.Unlock() of Reset, add and addMany
ConcRelease(g) == ConcUnlock(g)

NextLive ==
    \E g \in Goroutines :
        \/ \E cmd \in LiveCommands : ConcCall(g, "Add", <<cmd>>)
        \/ \E rs \in ConcBatches :
                ConcCall(g, "AddPublishRequests", publishCommands(rs))
        \/ ConcCall(g, "Reset", <<>>)
        \/ ConcAcquire(g)
        \/ ConcRead(g)
        \/ ConcWrite(g)
        \/ ConcRelease(g)
        \/ ConcSendPipe(g)
        \/ ConcSend(g, LiveClient)
        \/ ConcSendPipeDone(g, TransportFailure)

\* every goroutine that can take a step of Reset, add or addMany takes it;
\* nothing is assumed of the server
SpecLive ==
    /\ InitConc
    /\ [][NextLive]_vars
    /\ \A g \in Goroutines :
          /\ WF_vars(ConcAcquire(g))
          /\ WF_vars(ConcRead(g))
          /\ WF_vars(ConcWrite(g))
          /\ WF_vars(ConcRelease(g))

\* the goroutines that have made the write of their call
Written == {g \in Goroutines : gs[g].ticket > 0 /\ gs[g].pc \in {"unlock", "done"}}

\* the ticket of the last Reset that cleared the buffer, 0 when none did
LastReset ==
    LET ts == {0} \cup {gs[g].ticket : g \in {h \in Written : gs[h].op = "Reset"}}
    IN  CHOOSE t \in ts : \A u \in ts : u <= t

\* the commands of the appends made with the tickets t and above, in the
\* order of the tickets
RECURSIVE AppendsFrom(_)
AppendsFrom(t) ==
    IF t > NumGoroutines THEN <<>>
    ELSE LET at == {g \in Written : gs[g].ticket = t /\ gs[g].op # "Reset"}
         IN  (IF at = {} THEN <<>> ELSE gs[CHOOSE g \in at : TRUE].cmds)
             \o AppendsFrom(t + 1)

\* C31: for every interleaving of Reset with Add* and AddPublishRequests
\* calls the buffer holds the commands of the appends that took the lock
\* after the last Reset, whole and in the order in which the lock was
\* taken, after what the pipe held at the start when no Reset ran, and
\* nothing else.
C31_Linearizable ==
    \E initial \in {<<>>, <<Command("info", emptyMap)>>} :
        commands = (IF LastReset = 0 THEN initial ELSE <<>>)
                      \o AppendsFrom(LastReset + 1)

C31_Witness ==
    /\ \A g \in Goroutines : gs[g].pc = "done"
    /\ gs[1].op = "AddPublishRequests" /\ gs[1].ticket = 3
    /\ gs[2].op = "Reset" /\ gs[2].ticket = 2
    /\ gs[3].op = "Add" /\ gs[3].ticket = 1
    /\ commands = gs[1].cmds
    /\ Len(commands) = 2

\* C35: a call of Add*, AddPublishRequests or Reset that was made
\* completes, whatever the other goroutines do with the pipe, and also
\* while a SendPipe of the pipe waits for the server.
C35_DeadlockFree ==
    \A g \in Goroutines :
        (gs[g].pc \in {"lock", "read", "write", "unlock"}) ~> (gs[g].pc = "done")

C35_Witness ==
    /\ gs[1].pc = "wait"
    /\ gs[2].pc = "done" /\ gs[2].op = "Reset"
    /\ gs[3].pc = "done" /\ gs[3].op = "AddPublishRequests"
    /\ mu = NoOwner

(***************************************************************************)
(* Aliasing: the caller keeps the byte slice, the pointers and the slices  *)
(* it passed to an Add*, and may write through them after the call.  A     *)
(* command holds the address it was given; what is serialized is what is   *)
(* at the address when SendPipe runs.                                      *)
(***************************************************************************)
Ref(addr) == [ref |-> addr]

\* what the caller may have at each address
MemValues ==
    [data |-> {"d1", "d2"},
     since |-> {[isNil |-> FALSE, Offset |-> n, Epoch |-> "e1"] : n \in {1, 2}},
     disconnect |->
        {[isNil |-> FALSE, Code |-> n, Reason |-> "bye", Reconnect |-> FALSE] :
            n \in {3000, 3001}},
     whitelist |-> {<<"c1">>, <<"c2">>}]

InitialMem ==
    [data |-> "d1",
     since |-> [isNil |-> FALSE, Offset |-> 1, Epoch |-> "e1"],
     disconnect |->
        [isNil |-> FALSE, Code |-> 3000, Reason |-> "bye", Reconnect |-> FALSE],
     whitelist |-> <<"c1">>]

\* the command with the content that is at the addresses it holds
Deref(m, cmd) ==
    LET p == cmd.Params
    IN  CASE p.type \in {"PublishRequest", "broadcastRequest"} ->
                [cmd EXCEPT !.Params.Data = m[@.ref]]
          [] p.type = "subscribeRequest" ->
                [cmd EXCEPT !.Params.SubscribeOptions.RecoverSince = m[@.ref]]
          [] p.type = "historyRequest" ->
                [cmd EXCEPT !.Params.HistoryOptions.Since = m[@.ref]]
          [] p.type = "disconnectRequest" ->
                [cmd EXCEPT !.Params.DisconnectOptions.Disconnect = m[@.ref],
                            !.Params.DisconnectOptions.ClientWhitelist = m[@.ref]]
          [] OTHER -> cmd

DerefAll(m, cmds) == [i \in 1..Len(cmds) |-> Deref(m, cmds[i])]

InitAlias ==
    /\ BaseInit
    /\ mu = NoOwner
    /\ gs = <<>>
    /\ mem = InitialMem
    /\ given = NoDecorators
    /\ result = NoResult
    /\ ctx = "active"

\* an Add* whose arguments are addresses; the log keeps what was at the
\* addresses when the call returned
AliasEnqueue(op, cmds, buffer) ==
    /\ pc = "idle"
    /\ Len(commands) + Len(cmds) <= MaxCommands
    /\ commands' = buffer
    /\ log' = log \o DerefAll(mem, cmds)
    /\ last' = Call(op, Len(cmds), 0)
    /\ ret' = Return(<<>>, NoErr)
    /\ net' = NoNet
    /\ request' = NoRequest
    /\ response' = NoResponse
    /\ client' = NoClient
    /\ UNCHANGED <<pc, extra>>

\* the calls of the caller, with the addresses it keeps
AliasCommands ==
    {publishCommand(Channel, Ref("data"), <<>>),
     historyCommand(Channel, <<WithSince(Ref("since"))>>),
     disconnectCommand(User, <<WithDisconnect(Ref("disconnect")),
                               WithDisconnectClientWhitelist(Ref("whitelist"))>>)}

AliasAdd(cmd) == AliasEnqueue("Add", <<cmd>>, add(commands, cmd))

AliasAddPublishRequests ==
    LET cmds == publishCommands(<<PublishRequest(Channel, Ref("data"), PublishOptions)>>)
    IN  AliasEnqueue("AddPublishRequests", cmds, addMany(commands, cmds))

\* the caller writes through a reference it kept
Mutate(addr, v) ==
    /\ pc = "idle"
    /\ v # mem[addr]
    /\ mem' = [mem EXCEPT ![addr] = v]
    /\ UNCHANGED <<commands, log, pc, request, response, net, last, ret,
                   client, mu, gs, given, result, ctx>>

\* SendPipe up to the point where send blocks in httpClient.Do; enc.Encode
\* reads what is at the addresses now
AliasSendPipe(c) ==
    /\ pc = "idle"
    /\ client' = c
    /\ IF pipeEmpty(commands)
       THEN SendPipeFails(ErrPipeEmpty, 0)
       ELSE LET enc == EncodeAll(DerefAll(mem, commands))
            IN  IF enc.err # NoErr
                THEN SendPipeFails(enc.err, 0)
                ELSE IF c.getEndpoint
                THEN \E r \in GetAddrResults :
                        IF r.err # NoErr
                        THEN SendPipeFails(r.err, 1)
                        ELSE sendRequest(c, r.addr, enc.lines, 1)
                ELSE sendRequest(c, c.endpoint, enc.lines, 0)

NextAlias ==
    \/ \E cmd \in AliasCommands : AliasAdd(cmd)
    \/ AliasAddPublishRequests
    \/ \E addr \in DOMAIN MemValues : \E v \in MemValues[addr] : Mutate(addr, v)
    \/ Reset
    \/ \E c \in Clients : AliasSendPipe(c)
    \/ SendPipeDone(TransportFailure)
    \/ SendPipeDone(HTTPResponse(StatusOK, FaithfulBody(Len(request.body))))

SpecAlias == InitAlias /\ [][NextAlias]_vars

\* C13: a command does not change once it is appended: the request of a
\* SendPipe carries, for every buffered command, the content its
\* arguments had when the Add* call returned, whatever the caller wrote
\* to the data bytes or the option values afterwards.
C13_CommandImmutable ==
    (last.op = "SendPipe" /\ net.Do = 1) => request.body = EncodeAll(log).lines

(***************************************************************************)
(* The single-command operations of the Client (doc.go): each one builds   *)
(* a pipe of its own with one command, sends it, and turns the one reply   *)
(* into its result.                                                        *)
(***************************************************************************)
MaxSingleReplies == 2

\* the operations that return a result and an error
ResultOps ==
    {"Publish", "Broadcast", "Presence", "PresenceStats", "History",
     "Channels", "Info"}
\* the operations that return an error only
ErrorOnlyOps == {"Subscribe", "Unsubscribe", "Disconnect", "HistoryRemove"}
SingleOps == ResultOps \cup ErrorOnlyOps

\* the result payloads of a reply: none (an absent or empty "result"),
\* null, the empty object, an object that has none of the fields of the
\* result type, an object with the fields of the result type, and a JSON
\* value that is no object
Payloads == {"", "null", "{}", "{x}", "r1", "[]"}

SingleElements ==
    {Element("object", e, r) : e \in {"", "e100"}, r \in Payloads}
    \cup {Element("syntax", "", "")}

SingleBodies ==
    {b \in UNION {[1..n -> SingleElements] : n \in 0..MaxSingleReplies} :
        \A i \in 1..(Len(b) - 1) : b[i].kind # "syntax"}

SingleResponses ==
    {HTTPResponse(StatusOK, b) : b \in SingleBodies}
    \cup {HTTPResponse(500, <<>>), TransportFailure}

\* the zero value of the result type, and the result of the operations
\* that return none
ZeroValue == "zero"
NoValue == ""
Zero(op) == IF op \in ResultOps THEN ZeroValue ELSE NoValue

\* what the operation returns; decoded tells whether it called its decoder
Result(op, value, err, decoded) ==
    [op |-> op, value |-> value, err |-> err, decoded |-> decoded]

\* resp.Error returned as the error of the operation
ReplyError(e) == Err("Error " \o e, 0)

\* a variant of jsonUnmarshal that accepts only an object with the fields
\* of the result type
jsonUnmarshal_strict(payload) ==
    CASE payload = "" -> [value |-> ZeroValue, err |-> ErrUnmarshal]
      [] payload = "r1" -> [value |-> "r1", err |-> NoErr]
      [] OTHER -> [value |-> ZeroValue, err |-> ErrUnmarshalType]

\* json.Unmarshal(result, &r) into a zero-valued struct: no input is a
\* syntax error, null is a no-op, unknown fields of an object are ignored,
\* a value that is no object is a type error
jsonUnmarshal(payload) ==
    CASE payload = "" -> [value |-> ZeroValue, err |-> ErrUnmarshal]
      [] payload \in {"null", "{}", "{x}"} -> [value |-> ZeroValue, err |-> NoErr]
      [] payload = "[]" -> [value |-> ZeroValue, err |-> ErrUnmarshalType]
      [] OTHER -> [value |-> payload, err |-> NoErr]

\* decodePublish .. decodePresenceStats
decode(op, payload) ==
    LET r == jsonUnmarshal(payload)
    IN  IF r.err # NoErr THEN Result(op, ZeroValue, r.err, TRUE)
        ELSE Result(op, r.value, NoErr, TRUE)

\* a variant of singleReturn that decodes the result before it looks at
\* the error of the reply
singleReturn_decodeFirst(op, sent) ==
    IF sent.err # NoErr THEN Result(op, Zero(op), sent.err, FALSE)
    ELSE LET resp == sent.replies[1]
         IN  IF op \in ResultOps /\ decode(op, resp.Result).err # NoErr
             THEN decode(op, resp.Result)
             ELSE IF resp.Error # ""
             THEN Result(op, Zero(op), ReplyError(resp.Error), op \in ResultOps)
             ELSE IF op \in ErrorOnlyOps THEN Result(op, NoValue, NoErr, FALSE)
             ELSE decode(op, resp.Result)

\* the operation from the return of SendPipe on: resp := result[0], the
\* error of the reply, the decoder
singleReturn(op, sent) ==
    IF sent.err # NoErr THEN Result(op, Zero(op), sent.err, FALSE)
    ELSE LET resp == sent.replies[1]
         IN  IF resp.Error # ""
             THEN Result(op, Zero(op), ReplyError(resp.Error), FALSE)
             ELSE IF op \in ErrorOnlyOps THEN Result(op, NoValue, NoErr, FALSE)
             ELSE decode(op, resp.Result)

\* the command the operation puts into its pipe
SingleCommand(op, data) ==
    CASE op = "Publish" -> publishCommand(Channel, data, <<>>)
      [] op = "Broadcast" -> broadcastCommand(<<Channel>>, data, <<>>)
      [] op = "Subscribe" -> subscribeCommand(Channel, User, <<>>)
      [] op = "Unsubscribe" -> unsubscribeCommand(Channel, User, <<>>)
      [] op = "Disconnect" -> disconnectCommand(User, <<>>)
      [] op = "Presence" -> Command("presence", channelMap(Channel))
      [] op = "PresenceStats" -> Command("presence_stats", channelMap(Channel))
      [] op = "History" -> historyCommand(Channel, <<>>)
      [] op = "HistoryRemove" -> Command("history_remove", channelMap(Channel))
      [] op = "Channels" -> channelsCommand(<<>>)
      [] op = "Info" -> Command("info", emptyMap)

\* the operation ends before a request is posted
SingleFails(op, err, resolved) ==
    /\ ret' = Return(<<>>, err)
    /\ result' = singleReturn(op, Return(<<>>, err))
    /\ net' = [getEndpoint |-> resolved, Do |-> 0]
    /\ request' = NoRequest
    /\ UNCHANGED pc

\* the request of the operation is posted
SinglePosts(op, c, endpoint, lines, resolved) ==
    IF endpoint = BadAddr
    THEN SingleFails(op, ErrNewRequest, resolved)
    ELSE /\ request' = NewRequest(c, endpoint, lines)
         /\ net' = [getEndpoint |-> resolved, Do |-> 1]
         /\ pc' = "inflight"
         /\ ret' = Return(<<>>, NoErr)
         /\ result' = NoResult

\* the operation up to the point where send blocks in httpClient.Do:
\* pipe := c.Pipe(); pipe.Add...(...); c.SendPipe(ctx, pipe)
SingleCall(op, data, c) ==
    /\ pc = "idle"
    /\ LET pipe == add(<<>>, SingleCommand(op, data))
           enc == EncodeAll(pipe)
       IN  /\ commands' = pipe
           /\ IF enc.err # NoErr
              THEN SingleFails(op, enc.err, 0)
              ELSE IF c.getEndpoint
              THEN \E r \in GetAddrResults :
                      IF r.err # NoErr
                      THEN SingleFails(op, r.err, 1)
                      ELSE SinglePosts(op, c, r.addr, enc.lines, 1)
              ELSE SinglePosts(op, c, c.endpoint, enc.lines, 0)
    /\ last' = Call(op, 1, 0)
    /\ client' = c
    /\ response' = NoResponse
    /\ UNCHANGED <<log, mu, gs, mem, given, ctx>>

\* httpClient.Do returns resp; send, SendPipe and the operation run to
\* their end
SingleDone(resp) ==
    /\ pc = "inflight"
    /\ response' = resp
    /\ ret' = SendPipeReturn(commands, sendReturn(resp))
    /\ result' = singleReturn(last.op, SendPipeReturn(commands, sendReturn(resp)))
    /\ pc' = "idle"
    /\ UNCHANGED <<commands, log, request, net, last, client, mu, gs, mem, given,
                   ctx>>

NextSingle ==
    \/ \E op \in {"Publish", "Broadcast"}, d \in Data, c \in Clients :
            SingleCall(op, d, c)
    \/ \E op \in SingleOps \ {"Publish", "Broadcast"}, c \in Clients :
            SingleCall(op, "", c)
    \/ \E resp \in SingleResponses : SingleDone(resp)

SpecSingle == Init /\ [][NextSingle]_vars

\* the operation returned, after a response with status 200 and one reply
Replied ==
    /\ pc = "idle"
    /\ last.op \in SingleOps
    /\ net.Do = 1
    /\ response.err = NoErr
    /\ response.status = StatusOK
    /\ Len(response.body) = 1
    /\ response.body[1].kind = "object"

\* C18: when the one reply of a single-command operation carries an
\* error, the operation returns that error and the zero value of its
\* result, and does not call its decoder, whatever the result payload of
\* the reply is.
C18_ReplyErrorShortCircuits ==
    (Replied /\ response.body[1].error # "") =>
        /\ result.err = ReplyError(response.body[1].error)
        /\ result.value = Zero(last.op)
        /\ ~result.decoded

C18_Witness ==
    /\ Replied
    /\ last.op = "Publish"
    /\ response.body[1] = Element("object", "e100", "[]")
    /\ result = Result("Publish", ZeroValue, ReplyError("e100"), FALSE)

\* the errors of the decoder
DecodeErrors == {ErrUnmarshal, ErrUnmarshalType}

\* C19 as stated: for a reply without error, a result payload that is
\* absent, empty or of unknown shape makes an operation that expects a
\* result fail with a decode error, never succeed with the zero value.
C19_BadPayloadIsDecodeFailure ==
    (Replied /\ last.op \in ResultOps /\ response.body[1].error = ""
            /\ response.body[1].result \in {"", "null", "{}", "{x}", "[]"})
        => result.err \in DecodeErrors

\* C19: for a reply without error, an operation that expects a result
\* fails with the error of the decoder, and the zero value, when the
\* payload is absent or is no JSON object; a payload that is null, the
\* empty object or an object without any field of the result type is a
\* success with the zero value.  An operation that returns an error only
\* never looks at the payload.
C19_DecodeOutcome ==
    (Replied /\ response.body[1].error = "") =>
        LET payload == response.body[1].result
        IN  IF last.op \in ErrorOnlyOps
            THEN result = Result(last.op, NoValue, NoErr, FALSE)
            ELSE /\ result.decoded
                 /\ payload \in {"", "[]"} =>
                        result.err \in DecodeErrors /\ result.value = ZeroValue
                 /\ payload \in {"null", "{}", "{x}"} =>
                        result.err = NoErr /\ result.value = ZeroValue
                 /\ payload = "r1" =>
                        result.err = NoErr /\ result.value = "r1"

C19_Witness ==
    /\ Replied
    /\ last.op = "Info"
    /\ response.body[1] = Element("object", "", "{}")
    /\ result = Result("Info", ZeroValue, NoErr, TRUE)

\* C32: in every single-command operation the read of result[0] is in
\* range: when SendPipe on the pipe of the operation returns without an
\* error, the pipe holds the one command of the operation and the replies
\* are exactly one, the first element of the body, whatever the server
\* answered.
C32_FirstReplyExists ==
    (pc = "idle" /\ last.op \in SingleOps /\ net.Do = 1 /\ ret.err = NoErr) =>
        /\ Len(commands) = 1
        /\ Len(ret.replies) = 1
        /\ ret.replies[1] = Decode(response.body[1])

C32_Witness ==
    /\ Replied
    /\ last.op = "Presence"
    /\ ret = Return(<<Reply("", "r1")>>, NoErr)
    /\ result = Result("Presence", "r1", NoErr, TRUE)

(***************************************************************************)
(* The decorators.                                                         *)
(***************************************************************************)
\* the options struct the params of a command hold
OptionsOf(p) ==
    CASE p.type \in {"PublishRequest", "broadcastRequest"} -> p.PublishOptions
      [] p.type = "subscribeRequest" -> p.SubscribeOptions
      [] p.type = "unsubscribeRequest" -> p.UnsubscribeOptions
      [] p.type = "disconnectRequest" -> p.DisconnectOptions
      [] p.type = "historyRequest" -> p.HistoryOptions
      [] p.type = "channelsRequest" -> [Pattern |-> p.Pattern]

\* the options struct before any decorator ran
DefaultsOf(p) ==
    CASE p.type \in {"PublishRequest", "broadcastRequest"} -> PublishOptions
      [] p.type = "subscribeRequest" -> SubscribeOptions
      [] p.type = "unsubscribeRequest" -> UnsubscribeOptions
      [] p.type = "disconnectRequest" -> DisconnectOptions
      [] p.type = "historyRequest" -> HistoryOptions
      [] p.type = "channelsRequest" -> ChannelsOptions

\* the position of the last decorator of the field
LastIndex(opts, f) ==
    CHOOSE i \in DOMAIN opts :
        opts[i].field = f /\ \A j \in DOMAIN opts : j > i => opts[j].field # f

\* the list without its i-th element
Remove(opts, i) == SubSeq(opts, 1, i - 1) \o SubSeq(opts, i + 1, Len(opts))

\* C14: decorators are last-write-wins and idempotent: every field of the
\* options holds the value of the last decorator given for it, or its
\* default when there is none, and a decorator given a second time, with
\* the same value, leaves the serialized params as they are without it,
\* whatever other decorators are given.
C14_LastWriteWins ==
    given.op # "" =>
        LET opts == given.opts
            p == commands[1].Params
        IN  /\ \A f \in DOMAIN OptionsOf(p) :
                  IF \E i \in DOMAIN opts : opts[i].field = f
                  THEN OptionsOf(p)[f] = opts[LastIndex(opts, f)].val
                  ELSE OptionsOf(p)[f] = DefaultsOf(p)[f]
            /\ \A i, j \in DOMAIN opts :
                  (i < j /\ opts[i] = opts[j]) =>
                      MarshalParams(BuildCommand(given.op, Remove(opts, i)).Params)
                          = MarshalParams(p)

C14_Witness ==
    /\ given.op = "AddSubscribe"
    /\ given.opts = <<WithPresence(FALSE), WithPresence(TRUE), WithPresence(TRUE)>>
    /\ "presence" \in DOMAIN MarshalParams(commands[1].Params)

\* the number of fields the operation always sends
RequiredFields(p) ==
    CASE p.type \in {"PublishRequest", "broadcastRequest"} -> 2
      [] p.type \in {"subscribeRequest", "unsubscribeRequest"} -> 2
      [] p.type \in {"disconnectRequest", "historyRequest"} -> 1
      [] p.type = "channelsRequest" -> 0

\* the optional fields that do not hold their default
NonDefault(p) == {f \in DOMAIN OptionsOf(p) : OptionsOf(p)[f] # DefaultsOf(p)[f]}

(***************************************************************************)
(* Cancellation (doc.go, send): the request carries the context of the     *)
(* caller, req = req.WithContext(ctx), so httpClient.Do and the reads of   *)
(* the response body end with the error of the context once it is done.    *)
(* The server may answer late or never; the context is what bounds the     *)
(* call.                                                                   *)
(***************************************************************************)
ErrCanceled == Err("context.Canceled", 0)
ErrDeadlineExceeded == Err("context.DeadlineExceeded", 0)

\* ctx.Err()
ctxErr(c) ==
    IF c = "canceled" THEN ErrCanceled
    ELSE IF c = "deadline" THEN ErrDeadlineExceeded
    ELSE NoErr

\* a request that does not carry the context of the caller
observes_never(c) == FALSE

\* the request made with req.WithContext(ctx) sees that ctx is done
observes(c) == c # "active"

\* what httpClient.Do, or a read of the body, returns for a done context
ContextFailure(c) == [err |-> ctxErr(c), status |-> 0, body |-> <<>>]

\* the caller makes the context of the next call
NewContext ==
    /\ pc = "idle"
    /\ ctx # "active"
    /\ ctx' = "active"
    /\ UNCHANGED <<commands, log, pc, request, response, net, last, ret, client,
                   mu, gs, mem, given, result>>

\* SendPipe(ctx, pipe) with a context that is not done
CancelSendPipe(c) ==
    /\ ctx = "active"
    /\ SendPipe(c)

\* cancel() of the caller, or the deadline of the context, while SendPipe
\* is inside send
Cancel(kind) ==
    /\ pc \in {"inflight", "arrived"}
    /\ ctx = "active"
    /\ ctx' = kind
    /\ UNCHANGED <<commands, log, pc, request, response, net, last, ret, client,
                   mu, gs, mem, given, result>>

\* httpClient.Do returns the error of the context
DoCancelled ==
    /\ pc = "inflight"
    /\ observes(ctx)
    /\ response' = ContextFailure(ctx)
    /\ ret' = SendPipeReturn(commands, sendReturn(ContextFailure(ctx)))
    /\ last' = Call("SendPipe", 0, 0)
    /\ pc' = "idle"
    /\ UNCHANGED <<commands, log, request, net, client, extra>>

\* httpClient.Do returns: with an error or a status that is not 200, send
\* returns at once; with 200, send goes on to read the body
DoReturns(resp) ==
    /\ pc = "inflight"
    /\ response' = resp
    /\ IF resp.err # NoErr \/ resp.status # StatusOK
       THEN /\ ret' = SendPipeReturn(commands, sendReturn(resp))
            /\ last' = Call("SendPipe", 0, 0)
            /\ pc' = "idle"
       ELSE /\ pc' = "arrived"
            /\ UNCHANGED <<last, ret>>
    /\ UNCHANGED <<commands, log, request, net, client, extra>>

\* the decode loop reads the whole body
ReadBody ==
    /\ pc = "arrived"
    /\ ret' = SendPipeReturn(commands, sendReturn(response))
    /\ last' = Call("SendPipe", 0, 0)
    /\ pc' = "idle"
    /\ UNCHANGED <<commands, log, request, response, net, client, extra>>

\* a read of the body fails with the error of the context: dec.Decode
\* returns it and send returns nil, err
ReadCancelled ==
    /\ pc = "arrived"
    /\ observes(ctx)
    /\ ret' = SendPipeReturn(commands, sendReturn(ContextFailure(ctx)))
    /\ last' = Call("SendPipe", 0, 0)
    /\ pc' = "idle"
    /\ UNCHANGED <<commands, log, request, response, net, client, extra>>

NextCancel ==
    \/ AddPresence(Channel)
    \/ AddInfo
    \/ Reset
    \/ NewContext
    \/ \E c \in Clients : CancelSendPipe(c)
    \/ \E kind \in {"canceled", "deadline"} : Cancel(kind)
    \/ DoCancelled
    \/ \E resp \in Responses : DoReturns(resp)
    \/ ReadBody
    \/ ReadCancelled

\* net/http selects on ctx.Done() in Do and in the reads of the body, so a
\* done context ends them; nothing makes the server answer
SpecCancel ==
    /\ Init
    /\ [][NextCancel]_vars
    /\ WF_vars(DoCancelled)
    /\ WF_vars(ReadCancelled)

\* C22: when the context of the caller is cancelled, or its deadline
\* passes, while SendPipe is inside the HTTP call, SendPipe eventually
\* returns; a return with the error of the context has no replies, and the
\* return of such a call is either that one or the outcome of a response
\* that arrived before the cancellation was seen.
C22_CancelReturns ==
    /\ [][(pc # "idle" /\ pc' = "idle" /\ ctx # "active") =>
            \/ ret' = Return(<<>>, ctxErr(ctx))
            \/ /\ response' \in Responses
               /\ ret' = SendPipeReturn(commands, sendReturn(response'))]_vars
    /\ [](Returned("SendPipe") /\ ret.err \in {ErrCanceled, ErrDeadlineExceeded}
            => ret.replies = <<>>)
    /\ ((pc \in {"inflight", "arrived"} /\ ctx # "active") ~> pc = "idle")

C22_Witness ==
    /\ Returned("SendPipe")
    /\ ctx = "deadline"
    /\ ret = Return(<<>>, ErrDeadlineExceeded)
    /\ response = ContextFailure("deadline")
    /\ Len(commands) = 2

(***************************************************************************)
(* The client of main.go: the command buffer cmds is a field of the        *)
(* client, here the variable commands.  Send posts the buffer as one JSON  *)
(* array and reads one JSON array of responses.  One goroutine, one call   *)
(* after another; a call that posts is one step, the answer of the server  *)
(* an input of it.                                                         *)
(***************************************************************************)
ErrClientNotEmpty == Err("ErrClientNotEmpty", 0)
ErrWrongStatus(code) == Err("wrong status code", code)

LegacyOps ==
    {"Publish", "Unsubscribe", "Disconnect", "Presence", "History", "Channels",
     "Stats"}
LegacyMethod ==
    [Publish |-> "publish", Unsubscribe |-> "unsubscribe",
     Disconnect |-> "disconnect", Presence |-> "presence",
     History |-> "history", Channels |-> "channels", Stats |-> "stats"]
\* the operations that decode the body of the response
LegacyDecodedOps == {"Presence", "History", "Channels", "Stats"}

\* the data an operation is called with: publish alone takes data
LegacyData(op) == IF op = "Publish" THEN Data ELSE {""}

\* the Command an Add<op> appends; data is the raw message of publish
LegacyCommand(op, data) ==
    [Method |-> LegacyMethod[op], Params |-> [type |-> "legacy", Data |-> data]]

\* the zero value an operation returns with an error
LegacyZero(op) == IF op \in LegacyDecodedOps THEN ZeroValue ELSE "false"

\* what client.Do may return: the client looks at the error, the status,
\* whether the body parses, how many responses it holds and the first one
LegacyResponses ==
    {HTTPResponse(StatusOK, b) :
        b \in {x \in Bodies : \A i \in 1..Len(x) : x[i] = x[1]}}
    \cup {HTTPResponse(500, <<>>), TransportFailure}

\* a variant of empty that takes every buffer for empty
empty_always(cmds) == TRUE

\* c.empty()
empty(cmds) == Len(cmds) = 0

\* json.Marshal(cmds): fails on a raw message that is no JSON document
legacyMarshal(cmds) ==
    IF \E i \in 1..Len(cmds) : cmds[i].Params.Data \notin JSONDocs \cup {""}
    THEN [err |-> ErrMarshal, lines |-> <<>>]
    ELSE [err |-> NoErr,
          lines |-> [i \in 1..Len(cmds) |->
                        [method |-> cmds[i].Method, params |-> cmds[i].Params.Data]]]

\* json.Unmarshal(body, &result): the whole body is one document
legacyUnmarshal(body) ==
    IF \E i \in 1..Len(body) : ~DecodeOK(body[i])
    THEN [replies |-> <<>>, err |-> ErrUnmarshal]
    ELSE [replies |-> [i \in 1..Len(body) |-> Decode(body[i])], err |-> NoErr]

\* c.send(cmds) once it has marshalled: the answer of client.Do
legacySend(resp) ==
    IF resp.err # NoErr THEN [replies |-> <<>>, err |-> resp.err]
    ELSE IF resp.status # StatusOK
    THEN [replies |-> <<>>, err |-> ErrWrongStatus(resp.status)]
    ELSE legacyUnmarshal(resp.body)

\* what c.Send() returns for the buffer cmds it took
legacySendReturn(cmds, resp) ==
    LET enc == legacyMarshal(cmds)
        sent == legacySend(resp)
    IN  IF enc.err # NoErr THEN Return(<<>>, enc.err)
        ELSE IF sent.err # NoErr THEN Return(<<>>, sent.err)
        ELSE IF Len(sent.replies) # Len(cmds) THEN Return(<<>>, ErrMalformedResponse)
        ELSE Return(sent.replies, NoErr)

\* the request c.send makes, and the network it touches, for the buffer cmds
LegacyExchange(cmds, resp) ==
    LET enc == legacyMarshal(cmds)
    IN  IF enc.err # NoErr
        THEN /\ request' = NoRequest
             /\ response' = NoResponse
             /\ net' = NoNet
        ELSE /\ request' = [method |-> "POST", endpoint |-> StaticAddr,
                            authorization |-> "X-API-Sign", body |-> enc.lines]
             /\ response' = resp
             /\ net' = [getEndpoint |-> 0, Do |-> 1]

\* what the operation returns after Send returned sent
legacySingleReturn(op, sent) ==
    IF sent.err # NoErr THEN Result(op, LegacyZero(op), sent.err, FALSE)
    ELSE IF sent.replies[1].Error # ""
    THEN Result(op, LegacyZero(op), ReplyError(sent.replies[1].Error), FALSE)
    ELSE IF op \in LegacyDecodedOps
    THEN LET d == jsonUnmarshal(sent.replies[1].Result)
         IN  Result(op, d.value, d.err, TRUE)
    ELSE Result(op, "true", NoErr, TRUE)

\* c.Add<op>(...)
LegacyAdd(op, data) ==
    /\ Len(commands) < MaxCommands
    /\ commands' = Append(commands, LegacyCommand(op, data))
    /\ last' = Call("Add" \o op, 1, 0)
    /\ ret' = Return(<<>>, NoErr)
    /\ result' = NoResult
    /\ net' = NoNet
    /\ request' = NoRequest
    /\ response' = NoResponse
    /\ UNCHANGED <<log, pc, client, mu, gs, mem, given, ctx>>

\* c.Reset()
LegacyReset ==
    /\ commands' = <<>>
    /\ last' = Call("Reset", 0, Len(commands))
    /\ ret' = Return(<<>>, NoErr)
    /\ result' = NoResult
    /\ net' = NoNet
    /\ request' = NoRequest
    /\ response' = NoResponse
    /\ UNCHANGED <<log, pc, client, mu, gs, mem, given, ctx>>

\* a variant of LegacySendAll that keeps the commands of a Send that failed
LegacySendAll_keepFailed(resp) ==
    /\ commands' = IF legacySendReturn(commands, resp).err # NoErr
                   THEN commands ELSE <<>>
    /\ last' = Call("Send", 0, Len(commands))
    /\ ret' = legacySendReturn(commands, resp)
    /\ result' = NoResult
    /\ LegacyExchange(commands, resp)
    /\ UNCHANGED <<log, pc, client, mu, gs, mem, given, ctx>>

\* c.Send(): cmds := c.cmds; c.cmds = []Command{}; c.send(cmds)
LegacySendAll(resp) ==
    /\ commands' = <<>>
    /\ last' = Call("Send", 0, Len(commands))
    /\ ret' = legacySendReturn(commands, resp)
    /\ result' = NoResult
    /\ LegacyExchange(commands, resp)
    /\ UNCHANGED <<log, pc, client, mu, gs, mem, given, ctx>>

\* c.Publish, c.Unsubscribe, c.Disconnect, c.Presence, c.History,
\* c.Channels, c.Stats
LegacySingle(op, data) ==
    /\ last' = Call(op, 0, 0)
    /\ IF ~empty(commands)
       THEN /\ result' = Result(op, LegacyZero(op), ErrClientNotEmpty, FALSE)
            /\ ret' = Return(<<>>, NoErr)
            /\ net' = NoNet
            /\ request' = NoRequest
            /\ response' = NoResponse
            /\ UNCHANGED commands
       ELSE LET cmds == Append(commands, LegacyCommand(op, data))
            IN  \E resp \in LegacyResponses :
                    /\ commands' = <<>>
                    /\ ret' = legacySendReturn(cmds, resp)
                    /\ result' = legacySingleReturn(op, legacySendReturn(cmds, resp))
                    /\ LegacyExchange(cmds, resp)
    /\ UNCHANGED <<log, pc, client, mu, gs, mem, given, ctx>>

NextLegacy ==
    \/ \E op \in LegacyOps : \E d \in LegacyData(op) : LegacyAdd(op, d)
    \/ LegacyReset
    \/ \E resp \in LegacyResponses : LegacySendAll(resp)
    \/ \E op \in LegacyOps : \E d \in LegacyData(op) : LegacySingle(op, d)

SpecLegacy == Init /\ [][NextLegacy]_vars

\* C24: a single-command operation of the client of main.go called with a
\* non-empty buffer returns ErrClientNotEmpty and the zero value, makes no
\* request and leaves the buffer as it was.
C24_ClientNotEmpty ==
    [][(last'.op \in LegacyOps /\ commands # <<>>) =>
          /\ result'.err = ErrClientNotEmpty
          /\ result'.value = LegacyZero(last'.op)
          /\ net'.Do = 0
          /\ request' = NoRequest
          /\ commands' = commands]_vars

\* C33: Send of the client of main.go takes the whole buffer and leaves
\* the buffer of the client empty, whether it succeeds or fails with a
\* transport error, a wrong status, an undecodable body or
\* ErrMalformedResponse; the request it makes carries every command the
\* buffer held, in order.
C33_SendEmptiesBuffer ==
    [][last'.op = "Send" =>
          /\ commands' = <<>>
          /\ last'.discarded = Len(commands)
          /\ net'.Do = 1 =>
                /\ Len(request'.body) = Len(commands)
                /\ \A i \in 1..Len(commands) :
                      /\ request'.body[i].method = commands[i].Method
                      /\ request'.body[i].params = commands[i].Params.Data]_vars

C33_Witness ==
    /\ last = Call("Send", 0, 2)
    /\ ret = Return(<<>>, ErrMalformedResponse)
    /\ Len(request.body) = 2
    /\ Len(response.body) = 1
    /\ commands = <<>>

C24_Witness ==
    /\ last.op = "History"
    /\ result = Result("History", ZeroValue, ErrClientNotEmpty, FALSE)
    /\ Len(commands) = 2
    /\ commands[1].Method = "publish"
    /\ commands[2].Method = "stats"
    /\ net = NoNet

(***************************************************************************)
(* The client of main.go called by several goroutines, each with one       *)
(* single-command operation: c.empty() under the read lock, c.Add<op>      *)
(* under the lock, then c.Lock() and c.Send(), with the lock held until    *)
(* the operation returns.  The three are separate critical sections.       *)
(***************************************************************************)
\* the operations the goroutines call
LegacyConcOps == {"Publish", "Presence", "Stats"}

InitLegacyConc ==
    /\ InitConc
    /\ commands = <<>>

\* if !c.empty() { return ..., ErrClientNotEmpty }
LegacyConcEmpty(g, op) ==
    /\ gs[g].pc = "start"
    /\ canLock(mu)
    /\ gs' = [gs EXCEPT ![g] =
                IF empty(commands)
                THEN [@ EXCEPT !.pc = "add", !.op = op,
                               !.cmds = <<LegacyCommand(op, IF op = "Publish"
                                                            THEN "d1" ELSE "")>>]
                ELSE [@ EXCEPT !.pc = "done", !.op = op,
                               !.ret = Return(<<>>, ErrClientNotEmpty)]]
    /\ UNCHANGED <<commands, log, mu>>
    /\ ConcFrame

\* c.Add<op>(...): Lock, append, Unlock
LegacyConcAdd(g) ==
    /\ gs[g].pc = "add"
    /\ canLock(mu)
    /\ commands' = commands \o gs[g].cmds
    /\ gs' = [gs EXCEPT ![g] = [@ EXCEPT !.pc = "lock"]]
    /\ UNCHANGED <<log, mu>>
    /\ ConcFrame

\* c.Lock(); c.Send(): the buffer is taken and posted
LegacyConcSend(g) ==
    /\ gs[g].pc = "lock"
    /\ canLock(mu)
    /\ mu' = g
    /\ commands' = <<>>
    /\ gs' = [gs EXCEPT ![g] = [@ EXCEPT !.pc = "wait", !.sent = commands]]
    /\ UNCHANGED log
    /\ ConcFrame

\* Send returns; resp := result[0] panics when result is empty; the
\* deferred c.Unlock() runs in both cases
LegacyConcDone(g, resp) ==
    /\ gs[g].pc = "wait"
    /\ mu' = NoOwner
    /\ LET sent == legacySendReturn(gs[g].sent, resp)
       IN  gs' = [gs EXCEPT ![g] =
                    [@ EXCEPT !.pc = IF sent.err = NoErr /\ sent.replies = <<>>
                                     THEN "panic" ELSE "done",
                              !.ret = sent]]
    /\ UNCHANGED <<commands, log>>
    /\ ConcFrame

\* the server answers every command it was sent, or the exchange fails
NextLegacyConc ==
    \E g \in Goroutines :
        \/ \E op \in LegacyConcOps : LegacyConcEmpty(g, op)
        \/ LegacyConcAdd(g)
        \/ LegacyConcSend(g)
        \/ LegacyConcDone(g, TransportFailure)
        \/ LegacyConcDone(g, HTTPResponse(StatusOK,
                                          FaithfulBody(Len(gs[g].sent))))

SpecLegacyConc == InitLegacyConc /\ [][NextLegacyConc]_vars

\* C34 as stated: for every interleaving of single-command operations on
\* one client of main.go, a call returns ErrClientNotEmpty or sends its
\* own command and nothing else, and the read of result[0] is in range.
C34_OwnCommandOnly ==
    \A g \in Goroutines :
        /\ gs[g].pc # "panic"
        /\ gs[g].pc = "wait" => gs[g].sent = gs[g].cmds
        /\ (gs[g].pc = "done" /\ gs[g].sent = <<>>) =>
                gs[g].ret = Return(<<>>, ErrClientNotEmpty)

(***************************************************************************)
(* Successive Add* calls, on one pipe and on a new one: every call makes   *)
(* its options from a zero-valued struct.  In this specification given is  *)
(* the list of the calls made, the last of them on the current pipe.       *)
(***************************************************************************)
\* the decorators the calls are made with
CallOptions ==
    [AddPublish |-> {<<>>, <<WithSkipHistory(TRUE)>>},
     AddBroadcast |-> {<<>>, <<WithSkipHistory(TRUE)>>},
     AddSubscribe |-> {<<>>, <<WithPresence(TRUE)>>,
                       <<WithSubscribeClient("c1"), WithJoinLeave(TRUE)>>},
     AddUnsubscribe |-> {<<>>, <<WithUnsubscribeClient("c1")>>},
     AddDisconnect |-> {<<>>, <<WithDisconnectClient("c1")>>,
                        <<WithDisconnectClientWhitelist(<<"c2">>)>>},
     AddHistory |-> {<<>>, <<WithLimit(1)>>, <<WithReverse(TRUE), WithLimit(1)>>},
     AddChannels |-> {<<>>, <<WithPattern("ch*")>>}]

InitCalls ==
    /\ BaseInit
    /\ mu = NoOwner
    /\ gs = <<>>
    /\ mem = <<>>
    /\ given = <<>>
    /\ result = NoResult
    /\ ctx = "active"

\* the decorators of the call before this one, when it was a call of the
\* same operation
PreviousOptions(op) ==
    IF given # <<>> /\ given[Len(given)].op = op
    THEN given[Len(given)].opts ELSE <<>>

\* a variant of CallAdd that keeps the options of the call before
CallAdd_shared(op, opts) ==
    /\ Len(given) < MaxCommands
    /\ commands' = add(commands, BuildCommand(op, PreviousOptions(op) \o opts))
    /\ given' = Append(given, [op |-> op, opts |-> opts])
    /\ last' = Call(op, 1, 0)
    /\ ret' = Return(<<>>, NoErr)
    /\ UNCHANGED <<log, pc, request, response, net, client, mu, gs, mem, result,
                   ctx>>

\* pipe.Add...(..., opts...): options := &...Options{}, the decorators,
\* the command, p.add(cmd)
CallAdd(op, opts) ==
    /\ Len(given) < MaxCommands
    /\ commands' = add(commands, BuildCommand(op, opts))
    /\ given' = Append(given, [op |-> op, opts |-> opts])
    /\ last' = Call(op, 1, 0)
    /\ ret' = Return(<<>>, NoErr)
    /\ UNCHANGED <<log, pc, request, response, net, client, mu, gs, mem, result,
                   ctx>>

\* pipe = c.Pipe(): the next calls are made on a new pipe
CallPipe ==
    /\ commands # <<>>
    /\ commands' = <<>>
    /\ last' = Call("Pipe", 0, 0)
    /\ ret' = Return(<<>>, NoErr)
    /\ UNCHANGED <<log, pc, request, response, net, client, given, mu, gs, mem,
                   result, ctx>>

NextCalls ==
    \/ \E op \in DOMAIN CallOptions : \E opts \in CallOptions[op] :
            CallAdd(op, opts)
    \/ CallPipe

SpecCalls == InitCalls /\ [][NextCalls]_vars

\* the call that built the i-th command of the current pipe
CallOf(i) == given[Len(given) - Len(commands) + i]

\* C26: every Add* call applies its decorators to a zero-valued options
\* record: each field of the options of a buffered command holds the value
\* of the last decorator given to the call that built it, or its default
\* when that call had no decorator for it, whatever the calls before and
\* after it, on this pipe or on another, were given.
C26_FreshOptions ==
    \A i \in 1..Len(commands) :
        LET opts == CallOf(i).opts
            p == commands[i].Params
        IN  \A f \in DOMAIN OptionsOf(p) :
                IF \E k \in DOMAIN opts : opts[k].field = f
                THEN OptionsOf(p)[f] = opts[LastIndex(opts, f)].val
                ELSE OptionsOf(p)[f] = DefaultsOf(p)[f]

C26_Witness ==
    /\ Len(commands) = 2
    /\ CallOf(1) = [op |-> "AddHistory", opts |-> <<WithReverse(TRUE), WithLimit(1)>>]
    /\ CallOf(2) = [op |-> "AddHistory", opts |-> <<>>]
    /\ commands[2].Params.HistoryOptions = HistoryOptions

\* C15: the serialized params of a command hold the required fields of
\* the operation and one field for each option that is not at its default,
\* and nothing else: an option left at its default is not in the payload.
C15_WireFields ==
    given.op # "" =>
        LET p == commands[1].Params
        IN  Cardinality(DOMAIN MarshalParams(p))
                = RequiredFields(p) + Cardinality(NonDefault(p))

====
